---- MODULE Spec2Model ----
(***************************************************************************)
(* The hand-rolled ReAct agent loop of examples/wxai 09, 10, 11, 12 and 13 *)
(* (call_model / should_continue / call_tools over a LangGraph StateGraph  *)
(* with a MessagesState), the supervisor graph of example 12 and the       *)
(* grounding step of the RAG service of example 08; the streaming service  *)
(* of example 13; and the control flow of the scripts 02, 04, 05, 06, 07,  *)
(* 08, 13 and of the pipelines read_from_cos and chat_invoke; the service  *)
(* function generate of example 13; and the decision table of wxo/07.      *)
(***************************************************************************)
EXTENDS Integers, Sequences, FiniteSets, TLC

(***************************************************************************)
(* Bounds of the model.                                                    *)
(***************************************************************************)
\* the recursion_limit handed to graph.invoke in the scaled-down runs
ModelLimit == 3
\* the most tool-call requests one assistant message carries
MaxCalls == 2
\* the most invocations of chat_invoke in one behaviour
MaxRuns == 2
\* the latest reading of the wall clock, in half seconds
MaxTicks == 3
\* the most messages a payload of the deployed service carries
MaxPayload == 3
\* the largest loan amount submitted to the decision table, in steps of 25000
MaxAmount == 28

(***************************************************************************)
(* Text.  A Python str is a sequence of segments [t, n]: the string t      *)
(* repeated n times.  Literals have n = 1; a long tool output is a run of  *)
(* one character.  Slicing and concatenation are computed on the segments. *)
(***************************************************************************)
Lit(s) == IF s = "" THEN <<>> ELSE <<[t |-> s, n |-> 1]>>

Rep(n) == IF n = 0 THEN <<>> ELSE <<[t |-> "x", n |-> n]>>

RECURSIVE StrLen(_)
StrLen(s) == IF s = <<>> THEN 0 ELSE Len(Head(s).t) * Head(s).n + StrLen(Tail(s))

\* the first k characters of one segment
SegTake(g, k) ==
    LET w == Len(g.t)
        q == k \div w
        r == k % w
    IN  (IF q = 0 THEN <<>> ELSE <<[t |-> g.t, n |-> q]>>)
        \o (IF r = 0 THEN <<>> ELSE <<[t |-> SubSeq(g.t, 1, r), n |-> 1]>>)

\* s[:k]
RECURSIVE Take(_, _)
Take(s, k) ==
    IF s = <<>> \/ k <= 0 THEN <<>>
    ELSE LET g == Head(s)
             l == Len(g.t) * g.n
         IN  IF l <= k THEN <<g>> \o Take(Tail(s), k - l)
             ELSE SegTake(g, k)

\* a + b; adjacent literals are joined so that equal strings are equal values
Cat(a, b) ==
    IF a = <<>> THEN b
    ELSE IF b = <<>> THEN a
    ELSE LET x == a[Len(a)]
             y == Head(b)
         IN  IF x.n = 1 /\ y.n = 1
             THEN SubSeq(a, 1, Len(a) - 1) \o <<[t |-> x.t \o y.t, n |-> 1]>> \o Tail(b)
             ELSE IF x.t = y.t
             THEN SubSeq(a, 1, Len(a) - 1) \o <<[t |-> x.t, n |-> x.n + y.n]>> \o Tail(b)
             ELSE a \o b


\* t repeated n times, as one string
RECURSIVE Repeat(_, _)
Repeat(t, n) == IF n = 0 THEN "" ELSE t \o Repeat(t, n - 1)

\* the characters of s as one string (used on short texts only)
RECURSIVE Flatten(_)
Flatten(s) ==
    IF s = <<>> THEN "" ELSE Repeat(Head(s).t, Head(s).n) \o Flatten(Tail(s))

\* str.lower() on one character
LowerChar(c) ==
    CASE c = "A" -> "a" [] c = "B" -> "b" [] c = "C" -> "c" [] c = "D" -> "d"
      [] c = "E" -> "e" [] c = "F" -> "f" [] c = "G" -> "g" [] c = "H" -> "h"
      [] c = "I" -> "i" [] c = "J" -> "j" [] c = "K" -> "k" [] c = "L" -> "l"
      [] c = "M" -> "m" [] c = "N" -> "n" [] c = "O" -> "o" [] c = "P" -> "p"
      [] c = "Q" -> "q" [] c = "R" -> "r" [] c = "S" -> "s" [] c = "T" -> "t"
      [] c = "U" -> "u" [] c = "V" -> "v" [] c = "W" -> "w" [] c = "X" -> "x"
      [] c = "Y" -> "y" [] c = "Z" -> "z" [] OTHER -> c

\* str.lower(), from character i on
RECURSIVE LowerFrom(_, _)
LowerFrom(w, i) ==
    IF i > Len(w) THEN "" ELSE LowerChar(SubSeq(w, i, i)) \o LowerFrom(w, i + 1)

Lower(w) == LowerFrom(w, 1)

\* sub in w
Contains(w, sub) ==
    \E i \in 1..(Len(w) - Len(sub) + 1) : SubSeq(w, i, i + Len(sub) - 1) = sub

(***************************************************************************)
(* Messages (langchain_core.messages) and tool-call requests.              *)
(* id = 0 is a message that has no id yet; the state reducer assigns one.  *)
(***************************************************************************)
Msg(type, content, tool_calls, tool_call_id) ==
    [type |-> type, content |-> content, tool_calls |-> tool_calls,
     tool_call_id |-> tool_call_id, id |-> 0]

HumanMessage(content) == Msg("human", content, <<>>, "")
AIMessage(content, tool_calls) == Msg("ai", content, tool_calls, "")
ToolMessage(content, tool_call_id) == Msg("tool", content, <<>>, tool_call_id)

\* a request's "id" key: present with a value, or absent
SomeId(v) == [has |-> TRUE, v |-> v]
NoId == [has |-> FALSE, v |-> ""]

ToolCall(name, args, id) == [name |-> name, args |-> args, id |-> id]

\* a dispatcher that never copies the request's id
GetId_NoCopy(tool_call) == ""

\* tool_call.get("id", "")
GetId(tool_call) == IF tool_call.id.has THEN tool_call.id.v ELSE ""

(***************************************************************************)
(* MessagesState's reducer (langgraph add_messages): a message without id  *)
(* gets a fresh one; a message whose id is already in the state replaces   *)
(* that message in place; any other message is appended.                   *)
(***************************************************************************)
FreshId(left) ==
    1 + (IF left = <<>> THEN 0
         ELSE CHOOSE m \in {left[i].id : i \in DOMAIN left} :
                  \A i \in DOMAIN left : left[i].id <= m)

\* a state without reducer: the node's result overwrites the conversation
AddMessages_Overwrite(left, right) == right

RECURSIVE AddMessages(_, _)
AddMessages(left, right) ==
    IF right = <<>> THEN left
    ELSE LET m == IF Head(right).id = 0
                  THEN [Head(right) EXCEPT !.id = FreshId(left)]
                  ELSE Head(right)
             hit == {i \in DOMAIN left : left[i].id = m.id}
         IN  AddMessages(IF hit = {} THEN Append(left, m)
                         ELSE [left EXCEPT ![CHOOSE i \in hit : TRUE] = m],
                         Tail(right))

(***************************************************************************)
(* The examples that hold a copy of the agent loop, and the RAG service.   *)
(***************************************************************************)
AgentExamples == {9, 10, 11, 12, 13}
Examples == AgentExamples \cup {8}

\* the limit on the length of a tool result (examples 11 and 13)
TruncLimit == 2000
TruncMarker == "... [truncated]"

\* a run that ignores config and keeps the library's default limit
ConfiguredLimit_Default(e) == 25

\* config = {"recursion_limit": ...} of each example's test cell
ConfiguredLimit(e) ==
    CASE e = 9 -> 50 [] e = 10 -> 30 [] e = 11 -> 20 [] e = 12 -> 50 [] e = 13 -> 50

\* the tools list handed to create_react_agent_graph, in list order
Registry(e) ==
    CASE e \in {9, 10, 12} -> <<"add", "subtract", "multiply", "divide">>
      [] e = 11 -> <<"RAGQuery", "Wikipedia">>
      [] e = 13 -> <<"Wikipedia">>

MathTools == {"add", "subtract", "multiply", "divide"}

\* whether a system prompt is handed to create_react_agent_graph
HasSystemPrompt(e) == e \in {10, 11, 12, 13}

SystemPrompt(e) ==
    CASE e = 10 -> Lit("You are a specialized calculation assistant.")
      [] e = 11 -> Lit("You are a helpful assistant that uses tools to answer questions.")
      [] e = 12 -> Lit("You are a math agent.")
      [] e = 13 -> Lit("# Notes")

(***************************************************************************)
(* What invoking a tool returns: [ok, val], val the result's str() when ok *)
(* and the exception's str() otherwise.  out is what the platform does     *)
(* when a utility tool is run.                                             *)
(***************************************************************************)
Returned(text) == [ok |-> TRUE, val |-> text]
Raised(text) == [ok |-> FALSE, val |-> text]

\* str() of a float with an integral value
FloatStr(i) == Lit(ToString(i) \o ".0")

\* the @tool functions add, subtract, multiply, divide
MathInvoke(name, args) ==
    IF ~({"a", "b"} \subseteq DOMAIN args)
    THEN Raised(Lit("validation error: field required"))
    ELSE CASE name = "add" -> Returned(FloatStr(args.a + args.b))
           [] name = "subtract" -> Returned(FloatStr(args.a - args.b))
           [] name = "multiply" -> Returned(FloatStr(args.a * args.b))
           [] name = "divide" ->
                IF args.b = 0 THEN Raised(Lit("float division by zero"))
                ELSE IF args.a % args.b = 0 THEN Returned(FloatStr(args.a \div args.b))
                ELSE Returned(Lit("0.6666666666666666"))

\* what the platform's utility tool can do on one run
Output(len) == [kind |-> "output", len |-> len]
PlatformError == [kind |-> "platform_error", len |-> 0]
InvokeError == [kind |-> "invoke_error", len |-> 0]
NoOutcome == [kind |-> "none", len |-> 0]

\* run_tool of example 11: cuts a long output and marks it; never raises
RunTool11(out) ==
    IF out.kind = "platform_error"
    THEN Cat(Lit("Tool execution failed: "), Lit("platform error"))
    ELSE LET output == Rep(out.len)
         IN  IF StrLen(output) > TruncLimit
             THEN Cat(Take(output, TruncLimit), Lit(TruncMarker))
             ELSE output

\* run_tool of example 13: returns the output as it is; never raises
RunTool13(out) ==
    IF out.kind = "platform_error"
    THEN Cat(Lit("Tool execution failed: "), Lit("platform error"))
    ELSE Rep(out.len)

\* a wrapper that lets the platform tool's exception through
Invoke_Raises(e, name, args, out) ==
    IF name \in MathTools THEN MathInvoke(name, args)
    ELSE IF out.kind \in {"invoke_error", "platform_error"} THEN Raised(Lit("platform error"))
    ELSE IF e = 11 THEN Returned(RunTool11(out))
    ELSE Returned(RunTool13(out))

\* tool_func.invoke(tool_args)
Invoke(e, name, args, out) ==
    IF name \in MathTools THEN MathInvoke(name, args)
    ELSE IF out.kind = "invoke_error" THEN Raised(Lit("tool input validation failed"))
    ELSE IF e = 11 THEN Returned(RunTool11(out))
    ELSE Returned(RunTool13(out))

\* a lookup that takes the first tool without comparing names
FindTool_First(e, tool_name) == 1

\* for t in tools: if t.name == tool_name: ... break   (0: no tool found)
FindTool(e, tool_name) ==
    LET hits == {i \in DOMAIN Registry(e) : Registry(e)[i] = tool_name}
    IN  IF hits = {} THEN 0 ELSE CHOOSE i \in hits : \A j \in hits : i <= j

\* the content of the tool message for a returned result
ResultContent(e, result) ==
    CASE e = 11 -> IF StrLen(result) > TruncLimit THEN Take(result, TruncLimit) ELSE result
      [] e = 13 -> IF StrLen(result) > TruncLimit
                   THEN Cat(Take(result, TruncLimit), Lit(TruncMarker))
                   ELSE result
      [] OTHER -> result

\* an error message that drops the exception's text
ErrorContent_NoText(e, tool_name, text) == Lit("Error: ")

\* the content of the tool message for a raised exception
ErrorContent(e, tool_name, text) ==
    IF e = 13 THEN Cat(Lit("Error executing tool " \o tool_name \o ": "), text)
    ELSE Cat(Lit("Error: "), text)

\* the tool messages call_tools appends for one request
Dispatch(e, tool_call, out) ==
    LET tool_func == FindTool(e, tool_call.name)
    IN  IF tool_func # 0
        THEN LET r == Invoke(e, Registry(e)[tool_func], tool_call.args, out)
             IN  IF r.ok
                 THEN <<ToolMessage(ResultContent(e, r.val), GetId(tool_call))>>
                 ELSE <<ToolMessage(ErrorContent(e, tool_call.name, r.val), GetId(tool_call))>>
        ELSE IF e = 13
        THEN <<ToolMessage(Lit("Tool " \o tool_call.name \o " not found"), GetId(tool_call))>>
        ELSE <<>>

\* a loop that serves the requests last to first
RECURSIVE DispatchFrom_Reversed(_, _, _, _)
DispatchFrom_Reversed(e, tool_calls, outs, i) ==
    IF i > Len(tool_calls) THEN <<>>
    ELSE DispatchFrom_Reversed(e, tool_calls, outs, i + 1)
         \o Dispatch(e, tool_calls[i], outs[i])

\* the for loop of call_tools over last_message.tool_calls, from request i on
RECURSIVE DispatchFrom(_, _, _, _)
DispatchFrom(e, tool_calls, outs, i) ==
    IF i > Len(tool_calls) THEN <<>>
    ELSE Dispatch(e, tool_calls[i], outs[i]) \o DispatchFrom(e, tool_calls, outs, i + 1)

\* call_tools: the messages it returns for the state's messages
CallToolsResult(e, msgs, outs) ==
    LET last_message == msgs[Len(msgs)]
    IN  IF last_message.tool_calls = <<>> THEN <<>>
        ELSE DispatchFrom(e, last_message.tool_calls, outs, 1)

\* the callables call_tools invokes, in order: one entry per tool_func.invoke, with
\* the request it serves, what the platform did and what invoke returned or raised
RECURSIVE InvocationsFrom(_, _, _, _)
InvocationsFrom(e, tool_calls, outs, i) ==
    IF i > Len(tool_calls) THEN <<>>
    ELSE LET tool_func == FindTool(e, tool_calls[i].name)
         IN  (IF tool_func = 0 THEN <<>>
              ELSE <<[name |-> Registry(e)[tool_func], args |-> tool_calls[i].args,
                      call |-> tool_calls[i], out |-> outs[i],
                      result |-> Invoke(e, Registry(e)[tool_func], tool_calls[i].args,
                                        outs[i])]>>)
             \o InvocationsFrom(e, tool_calls, outs, i + 1)

\* a router that never sends the run to the tools
ShouldContinue_NoTools(msgs) == "END"

\* a router that forgets to look at tool_calls
ShouldContinue_AnyAI(msgs) ==
    IF msgs[Len(msgs)].type = "ai" THEN "tools" ELSE "END"

\* should_continue
ShouldContinue(msgs) ==
    LET last_message == msgs[Len(msgs)]
    IN  IF last_message.type = "ai" /\ last_message.tool_calls # <<>>
        THEN "tools" ELSE "END"

\* "system" in str(msg.content).lower()[:20]
MentionsSystem(content) ==
    LET low == Lower(Flatten(content))
    IN  Contains(SubSeq(low, 1, IF Len(low) < 20 THEN Len(low) ELSE 20), "system")

\* call_model: the messages handed to model_with_tools.invoke
ModelInput(e, msgs) ==
    IF HasSystemPrompt(e)
       /\ ~(\E i \in DOMAIN msgs : msgs[i].type = "human" /\ MentionsSystem(msgs[i].content))
    THEN <<HumanMessage(SystemPrompt(e))>> \o msgs
    ELSE msgs

(***************************************************************************)
(* The supervisor of example 12 and the grounding of example 08.           *)
(***************************************************************************)
MathKeywords ==
    {"calculate", "add", "subtract", "multiply", "divide", "math", "+", "-", "*", "/",
     "sum", "times", "what is", "compute", "solve", "result of"}

\* a router that hands every input to the math agent
SupervisorRouter_Always(msgs) == "math_agent"

\* supervisor_router: "math_agent" or "END"
SupervisorRouter(msgs) ==
    LET humans == {i \in DOMAIN msgs : msgs[i].type = "human"}
    IN  IF humans = {} THEN "END"
        ELSE LET user_message == msgs[CHOOSE i \in humans : \A j \in humans : i <= j]
                 content == Lower(Flatten(user_message.content))
             IN  IF \E keyword \in MathKeywords : Contains(content, keyword)
                 THEN "math_agent" ELSE "END"

\* the system message inference_model builds around the grounding context
GroundingMessage(grounding) ==
    Msg("system", Cat(Cat(Lit("### Context:\n"), grounding), Lit("\n\n")), <<>>, "")

\* messages.insert(0, {...}) in inference_model
InsertGrounding(msgs, grounding) == <<GroundingMessage(grounding)>> \o msgs

(***************************************************************************)
(* What the environment supplies: the user's text, the model's responses   *)
(* and the outcome of each run of a platform tool.                         *)
(***************************************************************************)
UserTexts == {"Calculate 15 * 8", "System status?"}

\* the utility-tool examples are run on the first text only
UserTextsFor(e) == IF e \in {11, 13} THEN {"Calculate 15 * 8"} ELSE UserTexts

CallChoices ==
    {ToolCall("add", [a |-> 2, b |-> 3], SomeId("call_1")),
     ToolCall("add", [a |-> 2, b |-> 3], NoId),
     ToolCall("divide", [a |-> 4, b |-> 0], SomeId("call_2")),
     ToolCall("Wikipedia", [input |-> "q"], SomeId("call_1"))}

ToolCallLists == UNION {[1..n -> CallChoices] : n \in 0..MaxCalls}

\* an assistant message: a final answer (possibly with empty content), or requests
Responses ==
    {AIMessage(Lit("The answer is 5."), <<>>), AIMessage(<<>>, <<>>)}
    \cup {AIMessage(<<>>, tcs) : tcs \in ToolCallLists \ {<<>>}}

OutputLens == {TruncLimit, 5000}

PlatformOutcomes == {Output(l) : l \in OutputLens} \cup {PlatformError, InvokeError}

OutcomesFor(e, tool_call) ==
    IF FindTool(e, tool_call.name) # 0 /\ tool_call.name \notin MathTools
    THEN PlatformOutcomes ELSE {NoOutcome}

OutcomeSeqs(e, tool_calls) ==
    {outs \in [1..Len(tool_calls) -> PlatformOutcomes \cup {NoOutcome}] :
        \A i \in 1..Len(tool_calls) : outs[i] \in OutcomesFor(e, tool_calls[i])}

\* example 08: the messages a payload can hold, and the payloads
RagMessages ==
    {Msg("user", Lit(t), <<>>, "") : t \in UserTexts}
    \cup {Msg("assistant", Lit("Hi, I am watsonx.ai agent."), <<>>, ""),
          Msg("system", Lit("Be brief."), <<>>, "")}

RagPayloads == UNION {[1..n -> RagMessages] : n \in 0..MaxPayload}

\* example 08: what the search does: the tool returns an output (possibly none), the
\* run of the tool raises, the tool cannot be obtained, the client cannot be built
SearchOutcomes ==
    {[kind |-> "output", text |-> Lit("watsonx is a platform.")],
     [kind |-> "output", text |-> <<>>],
     [kind |-> "error", text |-> <<>>],
     [kind |-> "no_tool", text |-> <<>>],
     [kind |-> "no_client", text |-> <<>>]}

(***************************************************************************)
(* State.                                                                  *)
(***************************************************************************)
VARIABLES
    ex,               \* which example runs
    messages,         \* state["messages"] of the running graph (08: the payload's list)
    outer,            \* example 12: the supervisor's state["messages"]
    pc,               \* the node to run next, or "done" / "error"
    step,             \* supersteps the running graph has executed
    recursion_limit,  \* config["recursion_limit"]
    model_input,      \* the messages of the latest model call
    model_calls,      \* number of model calls of the run
    invoked,          \* the tool callables invoked so far, in order
    raised            \* the exception that ended the run, "" if none

\* example 13, generate_stream
VARIABLES
    streaming,        \* the model response being streamed: its chunks, how many arrived
    emitted           \* the chunks generate_stream has yielded to the caller

streamvars == <<streaming, emitted>>

\* the scripts: one run of a script from its first line to its exit
VARIABLES
    script,           \* the script that runs, "" if none
    env,              \* the environment variables that are set (and not empty)
    spc,              \* the step of the script to run next, or "exit0" / "exit1"
    results,          \* the ids the script holds (prompt_id, ai_service_id, ...)
    attempts,         \* the remote operations attempted so far, in order
    printed,          \* the diagnostics printed so far, in order
    exit_status,      \* the process's exit status, -1 while it runs
    prompt,           \* chat_invoke: PROMPT
    now,              \* the wall clock, in half seconds
    files,            \* the files under data/raw: path and content
    saved,            \* chat_invoke: the path each successful invocation wrote
    answer,           \* chat_invoke: content, the text extracted from the response
    run               \* the number of the current invocation of the script

scriptvars == <<script, env, spc, results, attempts, printed, exit_status, prompt, now,
                files, saved, answer, run>>

\* example 13, generate: one call of the deployed service
VARIABLES
    payload,          \* context.get_json(): [messages |-> ...], messages "missing" if absent
    instructions,     \* create_agent: the system prompt built for this call
    execute_response  \* what generate returned, "none" until it returns

servicevars == <<payload, instructions, execute_response>>

\* wxo/07: one evaluation of the decision table
VARIABLES
    grade,            \* the input's grade
    loan_amount,      \* the input's loan_amount
    matched,          \* the rules whose conditions the input satisfies
    assessment        \* the output of the decisions node, and whether it has run

decisionvars == <<grade, loan_amount, matched, assessment>>

\* example 08, inference_model: the vector search of one call
VARIABLES
    query,            \* what proximity_search was called with
    search            \* what the search did: SearchIdle before

ragvars == <<query, search>>

\* the state of what does not take part in a run of an agent graph
others == <<streamvars, scriptvars, servicevars, decisionvars, ragvars>>

agentvars == <<ex, messages, outer, pc, step, recursion_limit, model_input, model_calls,
               invoked, raised>>

vars == <<agentvars, others>>

NoStream == [chunks |-> <<>>, sent |-> 0]

\* no script runs
ScriptsIdle ==
    /\ script = ""
    /\ env = {}
    /\ spc = ""
    /\ results = {}
    /\ attempts = <<>>
    /\ printed = <<>>
    /\ exit_status = -1
    /\ prompt = ""
    /\ now = 0
    /\ files = {}
    /\ saved = <<>>
    /\ answer = ""
    /\ run = 0

\* the service is not called
ServiceIdle ==
    /\ payload = "none"
    /\ instructions = <<>>
    /\ execute_response = "none"

\* no decision is evaluated
DecisionsIdle ==
    /\ grade = ""
    /\ loan_amount = 0
    /\ matched = {}
    /\ assessment = [returned |-> FALSE,
                     output |-> [insurance_required |-> FALSE, insurance_rate |-> 0,
                                 assessment_error |-> ""]]

SearchIdle == [kind |-> "none", text |-> <<>>]

\* no search has run
RagIdle ==
    /\ query = <<>>
    /\ search = SearchIdle

\* nothing is being streamed, nothing has been yielded and no script runs
OthersIdle ==
    /\ streaming = NoStream
    /\ emitted = <<>>
    /\ ScriptsIdle
    /\ ServiceIdle
    /\ DecisionsIdle
    /\ RagIdle

\* no agent graph runs
AgentsIdle ==
    /\ ex = 0
    /\ messages = <<>>
    /\ outer = <<>>
    /\ pc = "none"
    /\ step = 0
    /\ recursion_limit = 0
    /\ model_input = <<>>
    /\ model_calls = 0
    /\ invoked = <<>>
    /\ raised = ""
    /\ streaming = NoStream
    /\ emitted = <<>>
    /\ ServiceIdle

\* graph.invoke(inputs, config): the state after the input has been applied
Start(e, text, limit) ==
    /\ ex = e
    /\ messages = IF e = 8 THEN <<Msg("user", Lit(text), <<>>, "")>>
                  ELSE AddMessages(<<>>, <<HumanMessage(Lit(text))>>)
    /\ outer = IF e = 12 THEN messages ELSE <<>>
    /\ pc = CASE e = 8 -> "grounding" [] e = 12 -> "router" [] OTHER -> "agent"
    /\ step = 0
    /\ recursion_limit = limit
    /\ model_input = <<>>
    /\ model_calls = 0
    /\ invoked = <<>>
    /\ raised = ""
    /\ OthersIdle

\* example 08: generate(context) with the payload's messages
StartRag(msgs) ==
    /\ ex = 8
    /\ messages = msgs
    /\ outer = <<>>
    /\ pc = "grounding"
    /\ step = 0
    /\ recursion_limit = ModelLimit
    /\ model_input = <<>>
    /\ model_calls = 0
    /\ invoked = <<>>
    /\ raised = ""
    /\ OthersIdle

\* the scaled-down runs: every example, with a small recursion limit of either parity,
\* and the RAG service on every payload
Init ==
    \/ \E e \in Examples, limit \in {ModelLimit - 1, ModelLimit} :
         \E text \in UserTextsFor(e) :
           Start(e, text, limit)
    \/ \E msgs \in RagPayloads : StartRag(msgs)

(***************************************************************************)
(* The nodes of the agent graph.  A node runs only while the graph has     *)
(* executed fewer supersteps than recursion_limit.                         *)
(***************************************************************************)
\* where the run goes once should_continue has returned END
AfterEnd(e) == IF e = 12 THEN "math_return" ELSE "done"

\* node "agent": call_model, then the conditional edge should_continue
CallModelWith(responses) ==
    /\ pc = "agent"
    /\ step < recursion_limit
    /\ \E response \in responses :
          /\ messages' = AddMessages(messages, <<response>>)
          /\ pc' = IF ShouldContinue(messages') = "tools" THEN "tools" ELSE AfterEnd(ex)
    /\ model_input' = ModelInput(ex, messages)
    /\ model_calls' = model_calls + 1
    /\ step' = step + 1
    /\ UNCHANGED others
    /\ UNCHANGED <<ex, outer, recursion_limit, invoked, raised>>

CallModel == CallModelWith(Responses)

\* node "agent" when model_with_tools.invoke raises: nothing catches it in the graph
CallModelFails ==
    /\ pc = "agent"
    /\ step < recursion_limit
    /\ model_input' = ModelInput(ex, messages)
    /\ model_calls' = model_calls + 1
    /\ pc' = "error"
    /\ raised' = "ModelError"
    /\ UNCHANGED others
    /\ UNCHANGED <<ex, messages, outer, step, recursion_limit, invoked>>

\* node "tools": call_tools, then the edge back to "agent"
CallToolsWith(outcomes) ==
    /\ pc = "tools"
    /\ step < recursion_limit
    /\ LET tool_calls == messages[Len(messages)].tool_calls
       IN  \E outs \in OutcomeSeqs(ex, tool_calls) :
              /\ \A i \in DOMAIN outs : outs[i] \in outcomes
              /\ messages' = AddMessages(messages, CallToolsResult(ex, messages, outs))
              /\ invoked' = invoked \o InvocationsFrom(ex, tool_calls, outs, 1)
    /\ pc' = "agent"
    /\ step' = step + 1
    /\ UNCHANGED others
    /\ UNCHANGED <<ex, outer, recursion_limit, model_input, model_calls, raised>>

CallTools == CallToolsWith(PlatformOutcomes \cup {NoOutcome})

\* the graph has run recursion_limit supersteps and a node is still due
GraphRecursion ==
    /\ pc \in {"agent", "tools"}
    /\ step >= recursion_limit
    /\ pc' = "error"
    /\ raised' = "GraphRecursionError"
    /\ UNCHANGED others
    /\ UNCHANGED <<ex, messages, outer, step, recursion_limit, model_input, model_calls,
                   invoked>>

\* example 12: the conditional edge from START
SupervisorRoute ==
    /\ pc = "router"
    /\ pc' = IF SupervisorRouter(messages) = "math_agent" THEN "agent" ELSE "done"
    /\ UNCHANGED others
    /\ UNCHANGED <<ex, messages, outer, step, recursion_limit, model_input, model_calls,
                   invoked, raised>>

\* example 12: call_math_agent returns the math agent's messages to the supervisor
CallMathAgentReturn ==
    /\ pc = "math_return"
    /\ outer' = AddMessages(outer, messages)
    /\ messages' = outer'
    /\ pc' = "done"
    /\ UNCHANGED others
    /\ UNCHANGED <<ex, step, recursion_limit, model_input, model_calls, invoked, raised>>

\* query = messages[-1].get("content"), taken from the first message instead
GroundingQuery_First(msgs) == msgs[1].content

\* query = messages[-1].get("content")
GroundingQuery(msgs) == msgs[Len(msgs)].content

\* proximity_search: the output of the RAGQuery tool, "" when the result has no output
\* and "" when document_search_tool.run raises
ProximitySearch(outcome) == IF outcome.kind = "output" THEN outcome.text ELSE <<>>

\* example 08: inference_model (search, insert the grounding, call the model)
InferenceModel ==
    /\ pc = "grounding"
    /\ IF messages = <<>>
         THEN /\ pc' = "error"
              /\ raised' = "IndexError"
              /\ UNCHANGED <<messages, model_input, model_calls, ragvars>>
         ELSE \E outcome \in SearchOutcomes :
                /\ search' = outcome
                /\ IF outcome.kind \in {"no_client", "no_tool"}
                     THEN /\ query' = IF outcome.kind = "no_tool"
                                         THEN GroundingQuery(messages) ELSE query
                          /\ pc' = "error"
                          /\ raised' = "ClientError"
                          /\ UNCHANGED <<messages, model_input, model_calls>>
                     ELSE /\ query' = GroundingQuery(messages)
                          /\ messages' = InsertGrounding(messages, ProximitySearch(outcome))
                          /\ model_input' = messages'
                          /\ model_calls' = model_calls + 1
                          /\ \E ok \in BOOLEAN :
                                /\ pc' = IF ok THEN "done" ELSE "error"
                                /\ raised' = IF ok THEN "" ELSE "ModelError"
    /\ UNCHANGED <<streamvars, scriptvars, servicevars, decisionvars>>
    /\ UNCHANGED <<ex, outer, step, recursion_limit, invoked>>

Next ==
    \/ CallModel
    \/ CallModelFails
    \/ CallTools
    \/ GraphRecursion
    \/ SupervisorRoute
    \/ CallMathAgentReturn
    \/ InferenceModel

Spec == Init /\ [][Next]_vars

(***************************************************************************)
(* The runs with the configured limits, against a model that asks for a    *)
(* tool on every call.  The graph executor runs a node whenever one is due *)
(* and raises when none may run, hence the weak fairness.                  *)
(***************************************************************************)
\* the model's answer on every call: one request for the example's first tool
LoopResponse(e) ==
    AIMessage(<<>>, <<ToolCall(Registry(e)[1],
                               IF Registry(e)[1] \in MathTools THEN [a |-> 2, b |-> 3]
                               ELSE [input |-> "q"],
                               SomeId("call_1"))>>)

InitLoop == \E e \in AgentExamples : Start(e, "Calculate 15 * 8", ConfiguredLimit(e))

NextLoop ==
    \/ CallModelWith({LoopResponse(ex)})
    \/ CallToolsWith({Output(TruncLimit), NoOutcome})
    \/ GraphRecursion
    \/ SupervisorRoute

SpecLoop == InitLoop /\ [][NextLoop]_vars /\ WF_vars(NextLoop)

(***************************************************************************)
(* Example 13, generate_stream: agent.stream(inputs, config, stream_mode =  *)
(* ["updates", "messages"]).  The model's response arrives as chunks, which *)
(* the "messages" mode hands to the caller while call_model still waits for *)
(* model_with_tools.invoke to return; the "updates" mode reports what each  *)
(* node has returned.                                                      *)
(***************************************************************************)
\* a chunk of a streamed response: a content fragment, or the terminal chunk with the
\* tool calls
Chunk(content, tool_calls) == [content |-> content, tool_calls |-> tool_calls]

\* the streamed responses: a final answer in one or two fragments, requests, or a
\* content fragment and one request
StreamedResponses ==
    {<<Chunk(Lit("The answer is 5."), <<>>), Chunk(<<>>, <<>>)>>,
     <<Chunk(Lit("The answer"), <<>>), Chunk(Lit(" is 5."), <<>>), Chunk(<<>>, <<>>)>>}
    \cup {<<Chunk(<<>>, tcs)>> : tcs \in ToolCallLists \ {<<>>}}
    \cup {<<Chunk(Lit("Searching."), <<>>), Chunk(<<>>, <<c>>)>> : c \in CallChoices}

RECURSIVE ContentUpTo(_, _)
ContentUpTo(chunks, n) ==
    IF n = 0 THEN <<>> ELSE Cat(ContentUpTo(chunks, n - 1), chunks[n].content)

RECURSIVE ToolCallsUpTo(_, _)
ToolCallsUpTo(chunks, n) ==
    IF n = 0 THEN <<>> ELSE ToolCallsUpTo(chunks, n - 1) \o chunks[n].tool_calls

\* a response taken from the first chunk alone
Aggregate_First(chunks) == AIMessage(chunks[1].content, chunks[1].tool_calls)

\* response = model_with_tools.invoke(messages): the chunks added up
Aggregate(chunks) ==
    AIMessage(ContentUpTo(chunks, Len(chunks)), ToolCallsUpTo(chunks, Len(chunks)))

\* a chunk_response yielded to the caller, by its delta
Delta(role, content, tool_calls, tool_call_id, finish_reason, error) ==
    [role |-> role, content |-> content, tool_calls |-> tool_calls,
     tool_call_id |-> tool_call_id, finish_reason |-> finish_reason, error |-> error]

\* chunk_type "messages": a fragment with content is yielded, any other is skipped
MessagesChunk(chunk) ==
    IF chunk.content # <<>>
    THEN <<Delta("assistant", chunk.content, <<>>, "", "", "")>>
    ELSE <<>>

\* tool_call["id"] of the first request fails when the request has no id
AgentUpdateRaises(response) ==
    response.tool_calls # <<>> /\ ~response.tool_calls[1].id.has

\* chunk_type "updates" of node "agent": the first tool call, or the final message
AgentUpdate(response) ==
    IF response.tool_calls # <<>>
    THEN <<Delta("assistant", <<>>, <<response.tool_calls[1]>>, "", "", "")>>
    ELSE <<Delta("assistant", response.content, <<>>, "", "stop", "")>>

\* chunk_type "updates" of node "tools": tools_update["messages"][0]
ToolsUpdate(tool_messages) ==
    <<Delta("tool", tool_messages[1].content, <<>>, tool_messages[1].tool_call_id,
            "", "")>>

\* the except clause of generate_stream
ErrorChunk(text) ==
    <<Delta("assistant", Cat(Lit("Error in stream: "), Lit(text)), <<>>, "", "", text)>>

\* node "agent" starts: call_model hands the conversation to the model
StreamModelBegin ==
    /\ pc = "agent"
    /\ step < recursion_limit
    /\ \E chunks \in StreamedResponses : streaming' = [chunks |-> chunks, sent |-> 0]
    /\ pc' = "streaming"
    /\ model_input' = ModelInput(ex, messages)
    /\ model_calls' = model_calls + 1
    /\ UNCHANGED <<scriptvars, servicevars, decisionvars, ragvars>>
    /\ UNCHANGED <<ex, messages, outer, step, recursion_limit, invoked, raised, emitted>>

\* the next chunk of the response arrives and goes to the caller
StreamChunk ==
    /\ pc = "streaming"
    /\ streaming.sent < Len(streaming.chunks)
    /\ streaming' = [streaming EXCEPT !.sent = @ + 1]
    /\ emitted' = emitted \o MessagesChunk(streaming.chunks[streaming.sent + 1])
    /\ UNCHANGED <<scriptvars, servicevars, decisionvars, ragvars>>
    /\ UNCHANGED <<ex, messages, outer, pc, step, recursion_limit, model_input,
                   model_calls, invoked, raised>>

\* invoke returns the whole response: call_model returns it, should_continue decides,
\* and generate_stream handles the update of node "agent"
StreamModelEnd ==
    /\ pc = "streaming"
    /\ streaming.sent = Len(streaming.chunks)
    /\ LET response == Aggregate(streaming.chunks)
       IN  /\ messages' = AddMessages(messages, <<response>>)
           /\ IF AgentUpdateRaises(response)
              THEN /\ pc' = "error"
                   /\ raised' = "KeyError"
                   /\ emitted' = emitted \o ErrorChunk("'id'")
              ELSE /\ pc' = IF ShouldContinue(messages') = "tools" THEN "tools"
                            ELSE AfterEnd(ex)
                   /\ raised' = raised
                   /\ emitted' = emitted \o AgentUpdate(response)
    /\ streaming' = NoStream
    /\ step' = step + 1
    /\ UNCHANGED <<scriptvars, servicevars, decisionvars, ragvars>>
    /\ UNCHANGED <<ex, outer, recursion_limit, model_input, model_calls, invoked>>

\* the model call raises, before or between chunks
StreamModelFails ==
    /\ pc = "streaming"
    /\ streaming.sent < Len(streaming.chunks)
    /\ pc' = "error"
    /\ raised' = "ModelError"
    /\ emitted' = emitted \o ErrorChunk("ModelError")
    /\ UNCHANGED <<scriptvars, servicevars, decisionvars, ragvars>>
    /\ UNCHANGED <<ex, messages, outer, step, recursion_limit, model_input, model_calls,
                   invoked, streaming>>

\* node "tools" and the update generate_stream receives of it
StreamTools ==
    /\ pc = "tools"
    /\ step < recursion_limit
    /\ LET tool_calls == messages[Len(messages)].tool_calls
       IN  \E outs \in OutcomeSeqs(ex, tool_calls) :
              /\ messages' = AddMessages(messages, CallToolsResult(ex, messages, outs))
              /\ invoked' = invoked \o InvocationsFrom(ex, tool_calls, outs, 1)
              /\ emitted' = emitted \o ToolsUpdate(CallToolsResult(ex, messages, outs))
    /\ pc' = "agent"
    /\ step' = step + 1
    /\ UNCHANGED <<scriptvars, servicevars, decisionvars, ragvars>>
    /\ UNCHANGED <<ex, outer, recursion_limit, model_input, model_calls, raised,
                   streaming>>

\* the recursion limit is reached: agent.stream raises
StreamRecursion ==
    /\ pc \in {"agent", "tools"}
    /\ step >= recursion_limit
    /\ pc' = "error"
    /\ raised' = "GraphRecursionError"
    /\ emitted' = emitted \o ErrorChunk("GraphRecursionError")
    /\ UNCHANGED <<scriptvars, servicevars, decisionvars, ragvars>>
    /\ UNCHANGED <<ex, messages, outer, step, recursion_limit, model_input, model_calls,
                   invoked, streaming>>

InitStream ==
    \E limit \in {ModelLimit - 1, ModelLimit} : Start(13, "Calculate 15 * 8", limit)

NextStream ==
    \/ StreamModelBegin
    \/ StreamChunk
    \/ StreamModelEnd
    \/ StreamModelFails
    \/ StreamTools
    \/ StreamRecursion

SpecStream == InitStream /\ [][NextStream]_vars

(***************************************************************************)
(* The scripts.  A script is a table of steps: a remote operation (in a    *)
(* try block or not), a test of environment variables, a test of the ids   *)
(* obtained so far, or the writing of a file; each step names the step     *)
(* that follows when it succeeds and when it fails, "exit0" being the end  *)
(* of the script or exit(0) and "exit1" exit(1) or an uncaught exception.  *)
(***************************************************************************)
Step(kind, site, names, gives, ok, fail, empty, diag, caught, required) ==
    [kind |-> kind, site |-> site, names |-> names, gives |-> gives, ok |-> ok,
     fail |-> fail, empty |-> empty, diag |-> diag, caught |-> caught,
     required |-> required]

\* a remote operation inside try/except: the except prints diag and goes to fail
Remote(site, gives, ok, fail, diag) ==
    Step("remote", site, {}, gives, ok, fail, "", diag, TRUE, FALSE)

\* a remote operation whose empty result makes the script exit(0)
RemoteOrEmpty(site, ok, fail, diag) ==
    Step("remote", site, {}, "", ok, fail, "exit0", diag, TRUE, FALSE)

\* a remote operation outside any try: a failure is an uncaught exception
Unguarded(site, ok) ==
    Step("remote", site, {}, "", ok, "exit1", "", "Traceback", FALSE, FALSE)

\* if all of the variables are set ... else: print diag
IfEnv(names, ok, fail, diag) ==
    Step("env_all", "", names, "", ok, fail, "", diag, TRUE, FALSE)

\* the same, where diag reports the variables as required
Require(names, ok, fail, diag) ==
    Step("env_all", "", names, "", ok, fail, "", diag, TRUE, TRUE)

\* if none of the variables is set ... else: print diag, which reports them as required
RequireRest(names, ok, fail, diag) ==
    Step("env_none", "", names, "", ok, fail, "", diag, TRUE, TRUE)

\* if <id>: ... else: print diag
IfHave(names, ok, fail, diag) ==
    Step("have", "", names, "", ok, fail, "", diag, TRUE, FALSE)

\* with open(output_file, 'w') as f: f.write(...)
Write(ok) == Step("write", "", {}, "", ok, "exit1", "", "Error", TRUE, FALSE)

CosVars == {"COS_BUCKET", "COS_CONNECTION_ASSET_ID"}

Scripts ==
    {"02_prompt_template", "04_upload_to_cos", "05_create_vector_index",
     "06_ingest_vectors", "07_search_vectors", "08_rag_service_deploy",
     "13_ai_service_deploy", "read_from_cos", "chat_invoke"}

Program04 ==
    [client |-> Remote("APIClient", "", "check_cos", "exit1", "Client initialization failed"),
     check_cos |-> Require(CosVars, "upload", "exit0", "Missing required configuration"),
     upload |-> Remote("data_connection.write", "", "exit0", "exit0", "Upload failed")]

ProgramReadFromCos_Thrice ==
    [check_cos |-> Require(CosVars, "client", "exit1", "Missing required configuration"),
     client |-> Remote("APIClient", "", "download", "exit1", "Error"),
     download |-> Remote("download_folder", "", "exit0", "download_again",
                         "Folder download failed"),
     download_again |-> Remote("download_folder", "", "exit0", "download",
                               "Could not download folder")]

ProgramReadFromCos ==
    [check_cos |-> Require(CosVars, "client", "exit1", "Missing required configuration"),
     client |-> Remote("APIClient", "", "download", "exit1", "Error"),
     download |-> Remote("download_folder", "", "exit0", "download_again",
                         "Folder download failed"),
     download_again |-> Remote("download_folder", "", "exit0", "exit1",
                               "Could not download folder")]

Program05 ==
    [client |-> Remote("APIClient", "", "indexes", "exit1", "Client initialization failed"),
     indexes |-> Remote("VectorIndexes", "", "list", "exit1",
                        "Vector Indexes initialization failed"),
     list |-> Remote("vector_indexes.list", "", "check_milvus", "check_milvus",
                     "Could not list existing indexes"),
     check_milvus |-> Require({"MILVUS_CONNECTION_ID"}, "create", "exit1",
                              "ERROR: MILVUS_CONNECTION_ID not set in .env"),
     create |-> Remote("vector_indexes.create", "vectorized_document_asset_id", "exit0",
                       "exit0", "Vector Index creation failed")]

Program06 ==
    [client |-> Remote("APIClient", "", "check_index", "exit1", "Client initialization failed"),
     check_index |-> Require({"VECTORIZED_DOCUMENT_ASSET_ID"}, "details", "exit1",
                             "VECTORIZED_DOCUMENT_ASSET_ID not set in .env"),
     details |-> Remote("data_assets.get_details", "", "embeddings", "exit1",
                        "Could not load Vector Index"),
     embeddings |-> Remote("Embeddings", "", "vector_store", "exit1",
                           "Embeddings initialization failed"),
     vector_store |-> Remote("VectorStore", "", "add_documents", "exit1",
                             "Vector store initialization failed"),
     add_documents |-> Remote("vector_store.add_documents", "", "count", "exit0",
                              "Document addition/search failed"),
     count |-> Remote("vector_store.count", "", "search", "exit0",
                      "Document addition/search failed"),
     search |-> Remote("vector_store.search", "", "exit0", "exit0",
                       "Document addition/search failed")]

Program07 ==
    [client |-> Remote("APIClient", "", "check_index", "exit1", "Client initialization failed"),
     check_index |-> Require({"VECTORIZED_DOCUMENT_ASSET_ID"}, "details", "exit1",
                             "VECTORIZED_DOCUMENT_ASSET_ID not set in .env"),
     details |-> Remote("data_assets.get_details", "", "embeddings", "exit1",
                        "Could not load Vector Index"),
     embeddings |-> Remote("Embeddings", "", "vector_store", "exit1",
                           "Embeddings initialization failed"),
     vector_store |-> Remote("VectorStore", "", "count", "exit1",
                             "Vector store initialization failed"),
     count |-> RemoteOrEmpty("vector_store.count", "search", "exit1",
                             "Vector store initialization failed"),
     search |-> RemoteOrEmpty("vector_store.search", "generate", "exit1", "Search failed"),
     generate |-> Remote("model_inference.generate", "", "exit0", "exit0",
                         "Generation failed")]

SpaceVar == "WATSONX_SPACE_ID_DEV"

\* Cells 7-9 of 08 and cells 6-8 of 13: store, deploy, test
StoreDeployTest ==
    [have_spec |-> IfHave({"software_spec_id"}, "store", "have_service",
                          "Skipping storage (no software spec)"),
     store |-> Remote("repository.store_ai_service", "ai_service_id", "have_service",
                      "have_service", "Failed to store AI service"),
     have_service |-> IfHave({"ai_service_id"}, "deploy", "have_deployment",
                             "Skipping deployment (no service ID)"),
     deploy |-> Remote("deployments.create", "deployment_id", "have_deployment",
                       "have_deployment", "Failed to deploy AI service"),
     have_deployment |-> IfHave({"deployment_id"}, "test", "exit0",
                                "Skipping test (no deployment)"),
     test |-> Remote("deployments.run_ai_service", "", "exit0", "exit0", "Test failed")]

Program08 ==
    [client |-> Unguarded("APIClient", "check_space"),
     check_space |-> Require({SpaceVar}, "set_space", "exit1",
                             "ERROR: WATSONX_SPACE_ID not set"),
     set_space |-> Unguarded("client.set.default_space", "check_promote"),
     check_promote |-> IfEnv({"VECTORIZED_DOCUMENT_ASSET_ID", "WATSONX_PROJECT_ID"},
                             "promote", "local_test", "No vector index ID provided"),
     promote |-> Remote("spaces.promote", "vector_index_id", "local_test", "local_test",
                        "Failed to promote vector index"),
     local_test |-> Remote("local_function", "", "spec", "spec", "Local test failed"),
     spec |-> Remote("software_specifications.get_id_by_name(runtime-24.1-py3.11)",
                     "software_spec_id", "have_spec", "have_spec",
                     "Could not find software specification")]
    @@ StoreDeployTest

Program13 ==
    [client |-> Unguarded("APIClient", "check_space"),
     check_space |-> Require({SpaceVar}, "set_space", "exit1",
                             "ERROR: WATSONX_SPACE_ID not set"),
     set_space |-> Unguarded("client.set.default_space", "local_test"),
     local_test |-> Remote("local_function", "", "spec", "spec", "Local test failed"),
     spec |-> Remote("software_specifications.get_id_by_name(custom_spec_name)",
                     "software_spec_id", "have_spec", "pe_lookup",
                     "Creating new custom software spec"),
     pe_lookup |-> Remote("package_extensions.get_id_by_name", "", "base_spec", "pe_store",
                          ""),
     pe_store |-> Remote("package_extensions.store", "", "base_spec", "have_service",
                         "Failed to store AI service"),
     base_spec |-> Remote("software_specifications.get_id_by_name(runtime-24.1-py3.11)",
                          "", "spec_store", "have_service", "Failed to store AI service"),
     spec_store |-> Remote("software_specifications.store", "software_spec_id",
                           "have_spec", "have_service", "Failed to store AI service")]
    @@ StoreDeployTest

Program02 ==
    [manager |-> Unguarded("PromptTemplateManager(project)", "store"),
     store |-> Remote("store_prompt(project)", "prompt_id", "list", "list",
                      "Error storing template"),
     list |-> Remote("prompt_mgr.list", "", "have_load", "have_load",
                     "Error listing prompts"),
     have_load |-> IfHave({"prompt_id"}, "load", "have_update",
                          "Cannot load - no prompt ID available"),
     load |-> Remote("load_prompt", "", "have_update", "have_update",
                     "Error loading template"),
     have_update |-> IfHave({"prompt_id"}, "update", "have_deploy",
                            "Cannot update - no prompt ID available"),
     update |-> Remote("update_prompt", "", "have_deploy", "have_deploy",
                       "Error updating template"),
     have_deploy |-> IfHave({"prompt_id"}, "deploy_client", "have_lock",
                            "Cannot deploy - no prompt ID available"),
     deploy_client |-> Remote("APIClient(project)", "", "deploy", "have_lock",
                              "Error deploying or using template"),
     deploy |-> Remote("deployments.create(project)", "", "generate", "have_lock",
                       "Error deploying or using template"),
     generate |-> Remote("deployments.generate_text(project)", "", "have_lock",
                         "have_lock", "Error deploying or using template"),
     have_lock |-> IfHave({"prompt_id"}, "lock", "space_env",
                          "Cannot check lock - no prompt ID available"),
     lock |-> Remote("get_lock", "", "space_env", "space_env", "Error getting lock"),
     space_env |-> IfEnv({"WATSONX_SPACE_ID"}, "space_have", "space_note",
                         "WATSONX_SPACE_ID not configured - skipping space deployment"),
     space_note |-> IfHave({"prompt_id"}, "exit0", "exit0",
                           "Cannot deploy to space - no prompt ID available"),
     space_have |-> IfHave({"prompt_id"}, "space_manager", "exit0",
                           "Cannot deploy to space - no prompt ID available"),
     space_manager |-> Remote("PromptTemplateManager(space)", "", "space_store", "exit0",
                              "Error in space deployment"),
     space_store |-> Remote("store_prompt(space)", "", "space_client", "exit0",
                            "Error in space deployment"),
     space_client |-> Remote("APIClient(space)", "", "space_deploy", "exit0",
                             "Error in space deployment"),
     space_deploy |-> Remote("deployments.create(space)", "", "space_generate", "exit0",
                             "Error in space deployment"),
     space_generate |-> Remote("deployments.generate_text(space)", "", "exit0", "exit0",
                               "Error in space deployment")]

ProgramChatInvoke_UploadFatal ==
    [model |-> Remote("ModelInference", "", "chat", "exit1", "Error"),
     chat |-> Remote("model.chat", "", "write", "exit1", "Error"),
     write |-> Write("check_cos"),
     check_cos |-> IfEnv(CosVars, "cos_client", "check_partial", ""),
     check_partial |-> RequireRest(CosVars, "exit0", "exit0", "COS configuration incomplete. Skipping upload."),
     cos_client |-> Remote("APIClient", "", "upload", "exit1", "Error"),
     upload |-> Remote("data_connection.write", "", "exit0", "exit1", "Error")]

ProgramChatInvoke ==
    [model |-> Remote("ModelInference", "", "chat", "exit1", "Error"),
     chat |-> Remote("model.chat", "", "write", "exit1", "Error"),
     write |-> Write("check_cos"),
     check_cos |-> IfEnv(CosVars, "cos_client", "check_partial", ""),
     check_partial |-> RequireRest(CosVars, "exit0", "exit0",
                                   "COS configuration incomplete. Skipping upload."),
     cos_client |-> Remote("APIClient", "", "upload", "exit0", "Upload failed"),
     upload |-> Remote("data_connection.write", "", "exit0", "exit0", "Upload failed")]

Program(s) ==
    CASE s = "02_prompt_template" -> Program02
      [] s = "04_upload_to_cos" -> Program04
      [] s = "05_create_vector_index" -> Program05
      [] s = "06_ingest_vectors" -> Program06
      [] s = "07_search_vectors" -> Program07
      [] s = "08_rag_service_deploy" -> Program08
      [] s = "13_ai_service_deploy" -> Program13
      [] s = "read_from_cos" -> ProgramReadFromCos
      [] s = "chat_invoke" -> ProgramChatInvoke

\* the first step of a script
Entry(s) ==
    CASE s = "02_prompt_template" -> "manager"
      [] s = "read_from_cos" -> "check_cos"
      [] s = "chat_invoke" -> "model"
      [] OTHER -> "client"

\* the environment variables a script's control flow tests
TestedVars(s) ==
    UNION {Program(s)[l].names :
               l \in {m \in DOMAIN Program(s) : Program(s)[m].kind \in {"env_all", "env_none"}}}

(***************************************************************************)
(* chat_invoke: the response file.  Strings are kept as strings, so that   *)
(* slicing, filtering, stripping and replacing are computed character by   *)
(* character, as the expression of line 72 does.                           *)
(***************************************************************************)
Prompts ==
    {"What is AI?", "What is AI", " a/b ", "?!",
     "Explain retrieval-augmented generation: why/how?"}

ChatResponses == {"Artificial intelligence.", "It depends."}

\* str.isalnum(), on the ASCII characters the prompts are written in
Alnum ==
    {"a", "b", "c", "d", "e", "f", "g", "h", "i", "j", "k", "l", "m", "n", "o", "p", "q",
     "r", "s", "t", "u", "v", "w", "x", "y", "z", "A", "B", "C", "D", "E", "F", "G", "H",
     "I", "J", "K", "L", "M", "N", "O", "P", "Q", "R", "S", "T", "U", "V", "W", "X", "Y",
     "Z", "0", "1", "2", "3", "4", "5", "6", "7", "8", "9"}

CharAt(s, i) == SubSeq(s, i, i)

\* s[:n]
Slice(s, n) == IF Len(s) <= n THEN s ELSE SubSeq(s, 1, n)

\* "".join(c for c in s if c.isalnum() or c in (' ', '-', '_')), from position i on
RECURSIVE KeepFrom(_, _)
KeepFrom(s, i) ==
    IF i > Len(s) THEN ""
    ELSE (IF CharAt(s, i) \in Alnum \cup {" ", "-", "_"} THEN CharAt(s, i) ELSE "")
             \o KeepFrom(s, i + 1)

\* the first position of s from i on that holds no space
RECURSIVE FirstInk(_, _)
FirstInk(s, i) ==
    IF i > Len(s) \/ CharAt(s, i) # " " THEN i ELSE FirstInk(s, i + 1)

\* the last position of s up to i that holds no space
RECURSIVE LastInk(_, _)
LastInk(s, i) ==
    IF i < 1 \/ CharAt(s, i) # " " THEN i ELSE LastInk(s, i - 1)

\* s.strip(): after the filter a space is the only white space left
Strip(s) ==
    IF FirstInk(s, 1) > Len(s) THEN "" ELSE SubSeq(s, FirstInk(s, 1), LastInk(s, Len(s)))

\* s.replace(' ', '_'), from position i on
RECURSIVE ReplaceFrom(_, _)
ReplaceFrom(s, i) ==
    IF i > Len(s) THEN ""
    ELSE (IF CharAt(s, i) = " " THEN "_" ELSE CharAt(s, i)) \o ReplaceFrom(s, i + 1)

PromptSafe_NoSlice(p) == ReplaceFrom(Strip(KeepFrom(p, 1)), 1)

PromptSafe(p) == ReplaceFrom(Strip(KeepFrom(Slice(p, 30), 1)), 1)

\* datetime.now().strftime("%Y%m%d_%H%M%S"): the clock to the second
Timestamp(t) == "20250101_00000" \o ToString(t \div 2)

OutputFile(t, p) == "data/raw/response_" \o Timestamp(t) \o "_" \o PromptSafe(p) \o ".txt"

FileContent(p, c) == "Prompt: " \o p \o "\n\n" \o "Response:\n" \o c \o "\n"

\* open(path, 'w') and write: a file of that path is replaced
WriteTo(fs, path, text) ==
    {f \in fs : f.path # path} \cup {[path |-> path, content |-> text]}

(***************************************************************************)
(* The interpreter of the scripts: one action per kind of step.            *)
(***************************************************************************)
Running == script \in Scripts /\ spc \in DOMAIN Program(script)

Cur == Program(script)[spc]

\* the condition of an if statement
Holds_Always(st, e, r) == TRUE

Holds(st, e, r) ==
    CASE st.kind = "env_all" -> st.names \subseteq e
      [] st.kind = "env_none" -> st.names \cap e = {}
      [] st.kind = "have" -> st.names \subseteq r

\* the exit status once control is at target: 0 at the end of the script and after
\* exit(0), 1 after exit(1) and after an uncaught exception
StatusOf_Zero(target, status) ==
    IF target \in {"exit0", "exit1"} THEN 0 ELSE status

StatusOf(target, status) ==
    IF target = "exit0" THEN 0 ELSE IF target = "exit1" THEN 1 ELSE status

\* the record of a remote operation issued: what was called and whether it returned
Attempt(site, ok) == [site |-> site, ok |-> ok]

\* print(diag)
Say(out, diag) == IF diag = "" THEN out ELSE Append(out, diag)

Goto(target) ==
    /\ spc' = target
    /\ exit_status' = StatusOf(target, exit_status)

\* if all([...]) / if <id>: the branch is taken, or the else branch prints
Check ==
    /\ Running
    /\ Cur.kind \in {"env_all", "env_none", "have"}
    /\ IF Holds(Cur, env, results)
         THEN Goto(Cur.ok) /\ UNCHANGED printed
         ELSE Goto(Cur.fail) /\ printed' = Say(printed, Cur.diag)
    /\ UNCHANGED <<script, env, results, attempts, prompt, now, files, saved, answer, run>>
    /\ UNCHANGED <<agentvars, streamvars, servicevars, decisionvars, ragvars>>

\* the remote operation returns
RemoteSucceeds ==
    /\ Running
    /\ Cur.kind = "remote"
    /\ attempts' = Append(attempts, Attempt(Cur.site, TRUE))
    /\ results' = IF Cur.gives = "" THEN results ELSE results \cup {Cur.gives}
    /\ IF Cur.site = "model.chat"
         THEN answer' \in ChatResponses
         ELSE answer' = answer
    /\ Goto(Cur.ok)
    /\ UNCHANGED <<script, env, printed, prompt, now, files, saved, run>>
    /\ UNCHANGED <<agentvars, streamvars, servicevars, decisionvars, ragvars>>

\* the remote operation raises: the except clause prints, or nothing catches it
RemoteFails ==
    /\ Running
    /\ Cur.kind = "remote"
    /\ attempts' = Append(attempts, Attempt(Cur.site, FALSE))
    /\ printed' = Say(printed, Cur.diag)
    /\ Goto(Cur.fail)
    /\ UNCHANGED <<script, env, results, prompt, now, files, saved, answer, run>>
    /\ UNCHANGED <<agentvars, streamvars, servicevars, decisionvars, ragvars>>

\* 07: the store holds no document, the search finds none: exit(0)
RemoteEmpty ==
    /\ Running
    /\ Cur.kind = "remote"
    /\ Cur.empty # ""
    /\ attempts' = Append(attempts, Attempt(Cur.site, TRUE))
    /\ printed' = Append(printed, "No documents")
    /\ Goto(Cur.empty)
    /\ UNCHANGED <<script, env, results, prompt, now, files, saved, answer, run>>
    /\ UNCHANGED <<agentvars, streamvars, servicevars, decisionvars, ragvars>>

\* time passes; the clock is read by the write step only
Tick ==
    /\ Running
    /\ Cur.kind = "write"
    /\ now < MaxTicks
    /\ now' = now + 1
    /\ UNCHANGED <<script, env, spc, results, attempts, printed, exit_status, prompt, files,
                   saved, answer, run>>
    /\ UNCHANGED <<agentvars, streamvars, servicevars, decisionvars, ragvars>>

\* chat_invoke lines 66-79
WriteFile ==
    /\ Running
    /\ Cur.kind = "write"
    /\ files' = WriteTo(files, OutputFile(now, prompt), FileContent(prompt, answer))
    /\ saved' = Append(saved, OutputFile(now, prompt))
    /\ Goto(Cur.ok)
    /\ UNCHANGED <<script, env, results, attempts, printed, prompt, now, answer, run>>
    /\ UNCHANGED <<agentvars, streamvars, servicevars, decisionvars, ragvars>>

\* the pipeline runs chat_invoke again, as a new process in the same directory
Reinvoke ==
    /\ script = "chat_invoke"
    /\ exit_status # -1
    /\ run < MaxRuns
    /\ run' = run + 1
    /\ prompt' \in Prompts
    /\ spc' = Entry(script)
    /\ exit_status' = -1
    /\ results' = {}
    /\ attempts' = <<>>
    /\ printed' = <<>>
    /\ answer' = ""
    /\ UNCHANGED <<script, env, now, files, saved>>
    /\ UNCHANGED <<agentvars, streamvars, servicevars, decisionvars, ragvars>>

InitScripts ==
    /\ AgentsIdle
    /\ DecisionsIdle
    /\ RagIdle
    /\ script \in Scripts
    /\ env \in SUBSET TestedVars(script)
    /\ spc = Entry(script)
    /\ results = {}
    /\ attempts = <<>>
    /\ printed = <<>>
    /\ exit_status = -1
    /\ prompt \in (IF script = "chat_invoke" THEN Prompts ELSE {""})
    /\ now = 0
    /\ files = {}
    /\ saved = <<>>
    /\ answer = ""
    /\ run = 1

NextScripts ==
    \/ Check
    \/ RemoteSucceeds
    \/ RemoteFails
    \/ RemoteEmpty
    \/ Tick
    \/ WriteFile
    \/ Reinvoke

SpecScripts == InitScripts /\ [][NextScripts]_vars

(***************************************************************************)
(* Example 13: generate, the non-streaming entry point of the service.     *)
(***************************************************************************)
PayloadMessage(role, content) == [role |-> role, content |-> content]

PayloadMessages ==
    {PayloadMessage("user", Lit("Calculate 15 * 8")),
     PayloadMessage("user", <<>>),
     PayloadMessage("assistant", Lit("Hi, I am watsonx.ai agent.")),
     PayloadMessage("system", Lit("Be brief.")),
     PayloadMessage("system", Lit("Answer in French.")),
     PayloadMessage("tool", Lit("5.0"))}

\* context.get_json(): a payload without "messages", or with a list of messages
Payloads ==
    {[has |-> FALSE, messages |-> <<>>]}
    \cup {[has |-> TRUE, messages |-> ms] :
              ms \in UNION {[1..n -> PayloadMessages] : n \in 0..MaxPayload}}

\* what the model answers inside a call of the service
ServiceResponses ==
    {AIMessage(Lit("The answer is 120."), <<>>),
     AIMessage(<<>>, <<>>),
     AIMessage(<<>>, <<ToolCall("Wikipedia", [input |-> "q"], SomeId("call_1"))>>)}

\* create_agent: the instructions with the content of the system messages msgs[1..n]
RECURSIVE InstructionsUpTo(_, _)
InstructionsUpTo(msgs, n) ==
    IF n = 0 THEN SystemPrompt(13)
    ELSE IF msgs[n].role = "system"
         THEN Cat(Cat(InstructionsUpTo(msgs, n - 1), Lit("\n\n")), msgs[n].content)
         ELSE InstructionsUpTo(msgs, n - 1)

CreateAgent(msgs) == InstructionsUpTo(msgs, Len(msgs))

\* convert_messages, over msgs[1..n]
RECURSIVE ConvertUpTo(_, _)
ConvertUpTo(msgs, n) ==
    IF n = 0 THEN <<>>
    ELSE ConvertUpTo(msgs, n - 1)
            \o (CASE msgs[n].role = "user" -> <<HumanMessage(msgs[n].content)>>
                  [] msgs[n].role = "assistant" -> <<AIMessage(msgs[n].content, <<>>)>>
                  [] OTHER -> <<>>)

\* a conversion that takes every message for a user message
ConvertMessages_All(msgs) == [i \in DOMAIN msgs |-> HumanMessage(msgs[i].content)]

ConvertMessages(msgs) == ConvertUpTo(msgs, Len(msgs))

\* call_model of the graph create_agent builds: the instructions are the system prompt
ModelInputWith(system_prompt, msgs) ==
    IF ~(\E i \in DOMAIN msgs : msgs[i].type = "human" /\ MentionsSystem(msgs[i].content))
    THEN <<HumanMessage(system_prompt)>> \o msgs
    ELSE msgs

\* for msg in reversed(messages): the first content that is not empty, from msgs[n] down
RECURSIVE LastContentUpTo(_, _)
LastContentUpTo(msgs, n) ==
    IF n = 0 THEN <<>>
    ELSE IF StrLen(msgs[n].content) > 0 THEN msgs[n].content
         ELSE LastContentUpTo(msgs, n - 1)

\* an extraction without the scan backward
AnswerContent_Last(msgs) == msgs[Len(msgs)].content

\* the content generate puts into the response
AnswerContent(msgs) ==
    LET content == LastContentUpTo(msgs, Len(msgs))
    IN  IF StrLen(content) > 0 THEN content ELSE Lit("No response generated")

Choice(content) == [index |-> 0, message |-> [role |-> "assistant", content |-> content]]

\* execute_response of the try block
OkResponse(content) ==
    [body |-> [choices |-> <<Choice(content)>>, model_id |-> "model_id"]]

\* str(e)
ErrorText(e) ==
    CASE e = "ValueError" -> "Messages are required in payload"
      [] e = "ModelError" -> "model call failed"
      [] e = "GraphRecursionError" -> "Recursion limit reached"
      [] OTHER -> ""

\* a handler that reports the error in the content only
ErrorResponse_NoField(e) ==
    OkResponse(Cat(Lit("Error generating response: "), Lit(ErrorText(e))))

\* the response of the except clause
ErrorResponse(e) ==
    [body |-> [choices |-> <<Choice(Cat(Lit("Error generating response: "),
                                        Lit(ErrorText(e))))>>,
               model_id |-> "model_id",
               error |-> ErrorText(e)]]

\* payload.get("messages"); the check; the client, the model, the tools, the agent
GenerateBegin ==
    /\ pc = "payload"
    /\ IF ~payload.has \/ payload.messages = <<>>
         THEN /\ pc' = "error"
              /\ raised' = "ValueError"
              /\ UNCHANGED <<messages, instructions>>
         ELSE /\ instructions' = CreateAgent(payload.messages)
              /\ messages' = AddMessages(<<>>, ConvertMessages(payload.messages))
              /\ pc' = "agent"
              /\ raised' = ""
    /\ UNCHANGED <<ex, outer, step, recursion_limit, model_input, model_calls, invoked>>
    /\ UNCHANGED <<payload, execute_response>>
    /\ UNCHANGED <<streamvars, scriptvars, decisionvars, ragvars>>

\* APIClient(inner_credentials_local) or a factory raises
GenerateSetupFails ==
    /\ pc = "payload"
    /\ payload.has
    /\ payload.messages # <<>>
    /\ pc' = "error"
    /\ raised' = "ClientError"
    /\ UNCHANGED <<ex, messages, outer, step, recursion_limit, model_input, model_calls,
                   invoked>>
    /\ UNCHANGED <<servicevars, streamvars, scriptvars, decisionvars, ragvars>>

\* node "agent" inside agent.invoke
GenerateCallModel ==
    /\ ex = 13
    /\ payload.has
    /\ pc = "agent"
    /\ step < recursion_limit
    /\ \E answer_message \in ServiceResponses :
          /\ messages' = AddMessages(messages, <<answer_message>>)
          /\ pc' = IF ShouldContinue(messages') = "tools" THEN "tools" ELSE "finished"
    /\ model_input' = ModelInputWith(instructions, messages)
    /\ model_calls' = model_calls + 1
    /\ step' = step + 1
    /\ UNCHANGED <<ex, outer, recursion_limit, invoked, raised>>
    /\ UNCHANGED <<servicevars, streamvars, scriptvars, decisionvars, ragvars>>

\* the model call raises: agent.invoke raises
GenerateModelFails ==
    /\ ex = 13
    /\ payload.has
    /\ pc = "agent"
    /\ step < recursion_limit
    /\ model_input' = ModelInputWith(instructions, messages)
    /\ model_calls' = model_calls + 1
    /\ pc' = "error"
    /\ raised' = "ModelError"
    /\ UNCHANGED <<ex, messages, outer, step, recursion_limit, invoked>>
    /\ UNCHANGED <<servicevars, streamvars, scriptvars, decisionvars, ragvars>>

\* agent.invoke has returned: the content is extracted and the response returned
GenerateReturn ==
    /\ pc = "finished"
    /\ execute_response' = OkResponse(AnswerContent(messages))
    /\ pc' = "returned"
    /\ UNCHANGED <<ex, messages, outer, step, recursion_limit, model_input, model_calls,
                   invoked, raised>>
    /\ UNCHANGED <<payload, instructions>>
    /\ UNCHANGED <<streamvars, scriptvars, decisionvars, ragvars>>

\* except Exception as e
GenerateCatch ==
    /\ ex = 13
    /\ pc = "error"
    /\ execute_response' = ErrorResponse(raised)
    /\ pc' = "returned"
    /\ UNCHANGED <<ex, messages, outer, step, recursion_limit, model_input, model_calls,
                   invoked, raised>>
    /\ UNCHANGED <<payload, instructions>>
    /\ UNCHANGED <<streamvars, scriptvars, decisionvars, ragvars>>

InitService ==
    /\ ex = 13
    /\ payload \in Payloads
    /\ instructions = <<>>
    /\ execute_response = "none"
    /\ messages = <<>>
    /\ outer = <<>>
    /\ pc = "payload"
    /\ step = 0
    /\ recursion_limit \in {ModelLimit - 1, ModelLimit}
    /\ model_input = <<>>
    /\ model_calls = 0
    /\ invoked = <<>>
    /\ raised = ""
    /\ streaming = NoStream
    /\ emitted = <<>>
    /\ ScriptsIdle
    /\ DecisionsIdle
    /\ RagIdle

NextService ==
    \/ GenerateBegin
    \/ GenerateSetupFails
    \/ GenerateCallModel
    \/ GenerateModelFails
    \/ CallTools
    \/ GraphRecursion
    \/ GenerateReturn
    \/ GenerateCatch

SpecService == InitService /\ [][NextService]_vars

(***************************************************************************)
(* wxo/07: the decisions node assess_insurance_rate.  Amounts are whole    *)
(* currency units; rates are counted in ten-thousandths (0.001 is 10).     *)
(* How the engine chooses among several matching rules is not part of the  *)
(* repository, so the output is any matching rule's.                       *)
(***************************************************************************)
\* DecisionsCondition(): equal, less_than, greater_than_or_equal, in_range
Equal(v) == [op |-> "equal", v |-> v, lo |-> 0, hi |-> 0, lo_in |-> FALSE, hi_in |-> FALSE]
LessThan(v) == [op |-> "less_than", v |-> v, lo |-> 0, hi |-> 0, lo_in |-> FALSE, hi_in |-> FALSE]
GreaterThanOrEqual(v) ==
    [op |-> "greater_than_or_equal", v |-> v, lo |-> 0, hi |-> 0, lo_in |-> FALSE, hi_in |-> FALSE]
InRange(lo, hi, lo_in, hi_in) ==
    [op |-> "in_range", v |-> 0, lo |-> lo, hi |-> hi, lo_in |-> lo_in, hi_in |-> hi_in]

\* a value satisfies a condition
Satisfies(cond, x) ==
    CASE cond.op = "equal" -> x = cond.v
      [] cond.op = "less_than" -> x < cond.v
      [] cond.op = "greater_than_or_equal" -> x >= cond.v
      [] cond.op = "in_range" ->
            /\ IF cond.lo_in THEN x >= cond.lo ELSE x > cond.lo
            /\ IF cond.hi_in THEN x <= cond.hi ELSE x < cond.hi

\* class Assessment, with its defaults
Assessment(insurance_required, insurance_rate, assessment_error) ==
    [insurance_required |-> insurance_required, insurance_rate |-> insurance_rate,
     assessment_error |-> assessment_error]

AssessmentDefaults == Assessment(FALSE, 0, "")

\* DecisionsRule().condition("grade", ...).condition("loan_amount", ...).action(...)
DecisionsRule(on_grade, on_amount, insurance_required, insurance_rate) ==
    [grade |-> on_grade, loan_amount |-> on_amount,
     actions |-> Assessment(insurance_required, insurance_rate, "")]

\* rule1 .. rule8 of build_decisions
Rules ==
    <<DecisionsRule(Equal("A"), LessThan(100000), FALSE, 0),
      DecisionsRule(Equal("A"), InRange(100000, 300000, TRUE, FALSE), TRUE, 10),
      DecisionsRule(Equal("A"), InRange(300000, 600000, TRUE, FALSE), TRUE, 30),
      DecisionsRule(Equal("A"), GreaterThanOrEqual(600000), TRUE, 50),
      DecisionsRule(Equal("B"), LessThan(100000), FALSE, 0),
      DecisionsRule(Equal("B"), InRange(100000, 300000, TRUE, FALSE), TRUE, 25),
      DecisionsRule(Equal("B"), InRange(300000, 600000, TRUE, FALSE), TRUE, 50),
      DecisionsRule(Equal("A"), GreaterThanOrEqual(600000), TRUE, 75)>>

\* default_actions
DefaultActions == Assessment(FALSE, 0, "Not assessed. Incorrect data submitted.")

\* the rules whose two conditions the input satisfies
Matching(g, amount) ==
    {r \in DOMAIN Rules :
        Satisfies(Rules[r].grade, g) /\ Satisfies(Rules[r].loan_amount, amount)}

\* AssessmentData: grade is Literal['A', 'B'], loan_amount any number
Grades == {"A", "B"}

\* the amounts submitted: a grid over the table's ranges and the neighbours of each
\* boundary, and a negative amount
Amounts ==
    {k * 25000 : k \in 0..MaxAmount}
    \cup {b + d : b \in {100000, 300000, 600000}, d \in {-1, 1}}
    \cup {-1}

\* the flow's output before and after the decisions node has run
NotAssessed == [returned |-> FALSE, output |-> AssessmentDefaults]

Assessed(output) == [returned |-> TRUE, output |-> output]

\* START -> assess_insurance_rate -> END
Decide ==
    /\ grade \in Grades
    /\ ~assessment.returned
    /\ matched' = Matching(grade, loan_amount)
    /\ IF matched' = {}
         THEN assessment' = Assessed(DefaultActions)
         ELSE \E r \in matched' : assessment' = Assessed(Rules[r].actions)
    /\ UNCHANGED <<grade, loan_amount>>
    /\ UNCHANGED <<agentvars, streamvars, scriptvars, servicevars, ragvars>>

InitDecisions ==
    /\ AgentsIdle
    /\ ScriptsIdle
    /\ RagIdle
    /\ grade \in Grades
    /\ loan_amount \in Amounts
    /\ matched = {}
    /\ assessment = NotAssessed

NextDecisions == Decide

SpecDecisions == InitDecisions /\ [][NextDecisions]_vars

(***************************************************************************)
(* Vocabulary of the properties.                                           *)
(***************************************************************************)
Registered(e, name) == \E r \in DOMAIN Registry(e) : Registry(e)[r] = name

\* a step of node "tools", the requests it serves and what it adds
DispatchStep == pc = "tools" /\ pc' = "agent"
LastCalls == messages[Len(messages)].tool_calls
NewMessages == SubSeq(messages', Len(messages) + 1, Len(messages'))
NewInvoked == SubSeq(invoked', Len(invoked) + 1, Len(invoked'))

\* the state after a dispatch that has appended a tool message
AfterDispatch == pc = "agent" /\ messages[Len(messages)].type = "tool"

\* the step is a model call whose input holds every tool message of the conversation
NextIsModelCall ==
    /\ model_calls' = model_calls + 1
    /\ \A i \in DOMAIN messages :
          messages[i].type = "tool" => \E j \in DOMAIN model_input' : model_input'[j] = messages[i]

\* each request naming a registered tool is invoked with its arguments and, when the
\* tool returns, answered by a tool message with the content Expected and its id
DispatchedWith(Expected(_, _)) ==
    \A i \in DOMAIN LastCalls :
        Registered(ex, LastCalls[i].name) =>
            \E k \in DOMAIN NewInvoked :
                /\ NewInvoked[k].call = LastCalls[i]
                /\ NewInvoked[k].name = LastCalls[i].name
                /\ NewInvoked[k].args = LastCalls[i].args
                /\ NewInvoked[k].result.ok =>
                      \E j \in DOMAIN NewMessages :
                          /\ NewMessages[j].type = "tool"
                          /\ NewMessages[j].content = Expected(ex, NewInvoked[k].result.val)
                          /\ LastCalls[i].id.has =>
                                NewMessages[j].tool_call_id = LastCalls[i].id.v

Unchanged(e, val) == val

\* the result as examples 11 and 13 bound it
Bounded(e, val) ==
    IF e \in {11, 13} /\ StrLen(val) > 2000
    THEN IF e = 11 THEN Take(val, 2000) ELSE Cat(Take(val, 2000), Lit("... [truncated]"))
    ELSE val

(***************************************************************************)
(* C1.                                                                     *)
(***************************************************************************)
\* C1 as stated: in every copy of the loop a request naming a registered tool is
\* invoked with its arguments and answered by a tool message whose content is the
\* stringified result and whose tool_call_id is the request's id, and the next step
\* is a model call whose input contains that tool message.
C1_AsStated ==
    [][/\ DispatchStep => DispatchedWith(Unchanged)
       /\ AfterDispatch => NextIsModelCall]_vars

\* C1 amended: the content is the stringified result, cut to its first 2000
\* characters in example 11 and to 2000 characters plus the marker in example 13
\* when it is longer; the next step is a model call whose input contains the tool
\* message unless the recursion limit is reached, when the run raises instead.
C1_Dispatch ==
    [][/\ DispatchStep => DispatchedWith(Bounded)
       /\ AfterDispatch =>
             IF step < recursion_limit THEN NextIsModelCall
             ELSE pc' = "error" /\ raised' = "GraphRecursionError"]_vars

\* add(a=2, b=3) was invoked, answered with "5.0" under the request's id, and the
\* second model call received that tool message
C1_Witness ==
    /\ model_calls = 2
    /\ \E k \in DOMAIN invoked : invoked[k].name = "add" /\ invoked[k].args = [a |-> 2, b |-> 3]
    /\ \E i \in DOMAIN messages :
          /\ messages[i].type = "tool"
          /\ messages[i].content = Lit("5.0")
          /\ messages[i].tool_call_id = "call_1"
          /\ \E j \in DOMAIN model_input : model_input[j] = messages[i]

(***************************************************************************)
(* C2.                                                                     *)
(***************************************************************************)
\* C2: when the first model call of a run returns an assistant message without
\* tool calls, the run ends after exactly one model call, no tool is dispatched and
\* the conversation ends with that assistant message.
C2_FinalAnswerEndsRun ==
    (ex \in AgentExamples /\ Len(messages) >= 2
     /\ messages[2].type = "ai" /\ messages[2].tool_calls = <<>>)
    => /\ pc \in {"done", "math_return"}
       /\ model_calls = 1
       /\ step = 1
       /\ invoked = <<>>
       /\ Len(messages) = 2
       /\ messages[1].type = "human"

\* a run that ended after one model call with the final answer as last message
C2_Witness ==
    /\ pc = "done"
    /\ model_calls = 1
    /\ Len(messages) = 2
    /\ messages[2].type = "ai"
    /\ messages[2].tool_calls = <<>>
    /\ messages[2].content = Lit("The answer is 5.")

(***************************************************************************)
(* C3.                                                                     *)
(***************************************************************************)
\* C3 as stated: in every copy of the loop, each request whose name matches no
\* registered tool is answered by a tool message saying the tool was not found,
\* under the request's id, and the run goes on to the model without raising.
C3_AsStated ==
    [][DispatchStep =>
          /\ \A i \in DOMAIN LastCalls :
                ~Registered(ex, LastCalls[i].name) =>
                    \E j \in DOMAIN NewMessages :
                        /\ NewMessages[j].type = "tool"
                        /\ NewMessages[j].content
                              = Lit("Tool " \o LastCalls[i].name \o " not found")
                        /\ LastCalls[i].id.has =>
                              NewMessages[j].tool_call_id = LastCalls[i].id.v
          /\ pc' = "agent"
          /\ raised' = ""]_vars

(***************************************************************************)
(* C4.                                                                     *)
(***************************************************************************)
\* the requests of the assistant message that name a registered tool, in order
RegisteredCalls == SelectSeq(LastCalls, LAMBDA c : Registered(ex, c.name))

\* every raising invocation is answered by a tool message with the content Expected
\* under the request's id, every registered request of the message is invoked, and
\* the loop goes back to the model node without an exception
RaisedAnsweredWith(Expected(_, _, _)) ==
    /\ \A k \in DOMAIN NewInvoked :
          ~NewInvoked[k].result.ok =>
              \E j \in DOMAIN NewMessages :
                  /\ NewMessages[j].type = "tool"
                  /\ NewMessages[j].content
                        = Expected(ex, NewInvoked[k].call.name, NewInvoked[k].result.val)
                  /\ NewInvoked[k].call.id.has =>
                        NewMessages[j].tool_call_id = NewInvoked[k].call.id.v
    /\ [k \in DOMAIN NewInvoked |-> NewInvoked[k].call] = RegisteredCalls
    /\ pc' = "agent"
    /\ raised' = ""

ErrorAsStated(e, name, text) == Cat(Lit("Error: "), text)

ErrorPerExample(e, name, text) ==
    IF e = 13 THEN Cat(Lit("Error executing tool " \o name \o ": "), text)
    ELSE Cat(Lit("Error: "), text)

\* C4 as stated: in every copy of the loop a raising tool is answered by a tool
\* message "Error: <exception text>" under the request's id, the other requests of
\* the message are still dispatched and the loop returns to the model call.
C4_AsStated == [][DispatchStep => RaisedAnsweredWith(ErrorAsStated)]_vars

\* C4 amended: the content is "Error: <exception text>" in examples 09-12 and
\* "Error executing tool <name>: <exception text>" in example 13; the rest as stated.
C4_RaiseIsAnswered == [][DispatchStep => RaisedAnsweredWith(ErrorPerExample)]_vars

\* a raising invocation was answered in the conversation and the request after it
\* in the same assistant message was invoked as well
C4_Witness ==
    /\ pc = "agent"
    /\ raised = ""
    /\ Len(invoked) = 2
    /\ ~invoked[1].result.ok
    /\ invoked[2].result.ok
    /\ \E i \in DOMAIN messages :
          /\ messages[i].type = "tool"
          /\ messages[i].content = Lit("Error: float division by zero")
          /\ i < Len(messages)

(***************************************************************************)
(* C5.                                                                     *)
(***************************************************************************)
\* the limits the claim names
ClaimedLimit ==
    CASE ex \in {9, 12, 13} -> 50 [] ex = 10 -> 30 [] ex = 11 -> 20

\* C5 as stated: against a model that always asks for tools, the run ends in the
\* done state with a diagnostic final message.
C5_AsStated ==
    pc \in {"done", "error"}
    => /\ pc = "done"
       /\ raised = ""
       /\ messages[Len(messages)].type = "ai"
       /\ messages[Len(messages)].tool_calls = <<>>
       /\ messages[Len(messages)].content # <<>>

\* C5 amended: against a model that always asks for tools, the run never executes
\* more supersteps than the configured limit (50 in 09, 12, 13; 30 in 10; 20 in 11)
\* and terminates once it is reached: graph.invoke raises GraphRecursionError, with
\* no final message added to the conversation and no conversation returned.
C5_RaisesAtLimit ==
    /\ [](step <= ClaimedLimit /\ pc # "done" /\ 2 * model_calls <= ClaimedLimit + 1)
    /\ <>[](/\ pc = "error"
            /\ raised = "GraphRecursionError"
            /\ step = ClaimedLimit
            /\ messages[Len(messages)].type # "ai")

\* example 10 after its 30 supersteps: 15 model calls, 15 dispatches, then the error
C5_Witness ==
    /\ ex = 10
    /\ pc = "error"
    /\ raised = "GraphRecursionError"
    /\ step = 30
    /\ model_calls = 15
    /\ Len(invoked) = 15

(***************************************************************************)
(* C6.                                                                     *)
(***************************************************************************)
\* C6 as stated: in examples 11 and 13 a returned tool result longer than 2000
\* characters reaches the conversation as its first 2000 characters followed by the
\* truncation marker, and a shorter one unchanged, also when run_tool has already
\* cut and marked its output.
C6_AsStated ==
    [][(DispatchStep /\ ex \in {11, 13}) =>
          \A k \in DOMAIN NewInvoked :
              NewInvoked[k].result.ok =>
                  \E j \in DOMAIN NewMessages :
                      /\ NewMessages[j].type = "tool"
                      /\ NewMessages[j].tool_call_id = GetId(NewInvoked[k].call)
                      /\ NewMessages[j].content
                            = IF StrLen(NewInvoked[k].result.val) > 2000
                              THEN Cat(Take(NewInvoked[k].result.val, 2000),
                                       Lit("... [truncated]"))
                              ELSE NewInvoked[k].result.val]_vars

(***************************************************************************)
(* C7.                                                                     *)
(***************************************************************************)
\* C7 as stated: every tool message's tool_call_id is the id of a tool-call request
\* of an assistant message earlier in the conversation, whether or not the requests
\* carry an id field.
C7_AsStated ==
    \A i \in DOMAIN messages :
        messages[i].type = "tool" =>
            \E j \in 1..(i - 1) :
                /\ messages[j].type = "ai"
                /\ \E c \in DOMAIN messages[j].tool_calls :
                      /\ messages[j].tool_calls[c].id.has
                      /\ messages[j].tool_calls[c].id.v = messages[i].tool_call_id

(***************************************************************************)
(* C8.                                                                     *)
(***************************************************************************)
\* a step that ends a run of the agent loop
LoopEnds ==
    /\ ex \in AgentExamples
    /\ pc \in {"agent", "tools"}
    /\ pc' \in {"done", "math_return", "error"}

EndsByFinalAnswer ==
    /\ pc = "agent"
    /\ pc' \in {"done", "math_return"}
    /\ raised' = ""
    /\ model_calls' = model_calls + 1
    /\ Len(messages') = Len(messages) + 1
    /\ messages'[Len(messages')].type = "ai"
    /\ messages'[Len(messages')].tool_calls = <<>>

EndsByLimit ==
    /\ pc' = "error"
    /\ raised' = "GraphRecursionError"
    /\ step = recursion_limit
    /\ model_calls' = model_calls

EndsByModelFailure ==
    /\ pc = "agent"
    /\ pc' = "error"
    /\ raised' = "ModelError"
    /\ model_calls' = model_calls + 1
    /\ step < recursion_limit

\* C8 as stated: a run ends only after a model call without tool calls or by
\* reaching the recursion limit, never while tool calls are waiting to be
\* dispatched and never for another reason such as a failing model call.
C8_AsStated ==
    [][LoopEnds => /\ EndsByFinalAnswer \/ EndsByLimit
                   /\ pc # "tools"]_vars

\* C8 amended: a run ends only (a) after a model call without tool calls, (b) by
\* reaching the recursion limit, or (c) by an exception of the model call, which
\* nothing in the graph catches; it ends while tool calls are waiting to be
\* dispatched only in case (b) and only with an odd limit.
C8_EndsOnlyBy ==
    [][LoopEnds => /\ EndsByFinalAnswer \/ EndsByLimit \/ EndsByModelFailure
                   /\ pc = "tools" => EndsByLimit /\ recursion_limit % 2 = 1]_vars

\* a run that ended with a final answer after a dispatch
C8_Witness ==
    /\ pc = "done"
    /\ raised = ""
    /\ model_calls = 2
    /\ Len(invoked) >= 1
    /\ messages[Len(messages)].type = "ai"
    /\ messages[Len(messages)].tool_calls = <<>>

(***************************************************************************)
(* C9.                                                                     *)
(***************************************************************************)
IsPrefix(a, b) == Len(a) <= Len(b) /\ SubSeq(b, 1, Len(a)) = a

\* C9 as stated: after every step (model call, dispatch, sub-agent call, grounding
\* in the RAG service) the previous conversation is a prefix of the new one.
C9_AsStated == [][IsPrefix(messages, messages') /\ IsPrefix(outer, outer')]_vars

\* C9 amended: in the agent loops and the supervisor the previous conversation is a
\* prefix of the new one after every step; in the RAG service the grounding step
\* inserts one system message in front of the payload's messages, which keep their
\* order behind it.
C9_AppendOnly ==
    [][IF ex = 8
       THEN messages' # messages =>
               /\ Len(messages') = Len(messages) + 1
               /\ messages'[1].type = "system"
               /\ SubSeq(messages', 2, Len(messages')) = messages
       ELSE IsPrefix(messages, messages') /\ IsPrefix(outer, outer')]_vars

\* the supervisor has taken over the math agent's conversation of a run with a
\* dispatch
C9_Witness ==
    /\ ex = 12
    /\ pc = "done"
    /\ outer = messages
    /\ Len(messages) >= 4
    /\ \E i \in DOMAIN messages : messages[i].type = "tool"

(***************************************************************************)
(* C10.                                                                    *)
(***************************************************************************)
\* the requests of the assistant message that call_tools answers with a message
AnsweredCalls == IF ex = 13 THEN LastCalls ELSE RegisteredCalls

\* C10: the requests of one assistant message are dispatched one at a time in the
\* order the model returned them, and the tool messages are appended in that same
\* order, all before the next model call.
C10_InOrder ==
    [][DispatchStep =>
          /\ [k \in DOMAIN NewInvoked |-> NewInvoked[k].call] = RegisteredCalls
          /\ [j \in DOMAIN NewMessages |-> NewMessages[j].tool_call_id]
                = [j \in DOMAIN AnsweredCalls |->
                      IF AnsweredCalls[j].id.has THEN AnsweredCalls[j].id.v ELSE ""]
          /\ \A j \in DOMAIN NewMessages : NewMessages[j].type = "tool"
          /\ model_calls' = model_calls
          /\ pc' = "agent"]_vars

\* two requests with different ids were answered in the order of the requests
C10_Witness ==
    /\ pc = "agent"
    /\ Len(messages) = 4
    /\ messages[2].type = "ai"
    /\ Len(messages[2].tool_calls) = 2
    /\ messages[2].tool_calls[1].id = SomeId("call_2")
    /\ messages[2].tool_calls[2].id = SomeId("call_1")
    /\ messages[3].type = "tool" /\ messages[3].tool_call_id = "call_2"
    /\ messages[4].type = "tool" /\ messages[4].tool_call_id = "call_1"

(***************************************************************************)
(* C11.                                                                    *)
(***************************************************************************)
\* the requests naming a registered tool in the assistant messages msgs[1..n]
RECURSIVE RequestsUpTo(_, _, _)
RequestsUpTo(e, msgs, n) ==
    IF n = 0 THEN <<>>
    ELSE RequestsUpTo(e, msgs, n - 1)
         \o (IF msgs[n].type = "ai"
             THEN SelectSeq(msgs[n].tool_calls, LAMBDA c : Registered(e, c.name))
             ELSE <<>>)

\* the last assistant message's requests still wait for node "tools": it is due, or
\* the recursion limit was reached when it was due (steps alternate agent, tools)
PendingDispatch ==
    /\ messages # <<>>
    /\ messages[Len(messages)].type = "ai"
    /\ messages[Len(messages)].tool_calls # <<>>
    /\ \/ pc = "tools"
       \/ pc = "error" /\ raised = "GraphRecursionError" /\ step % 2 = 1

\* C11: over a whole run the tool invocations are, in order, exactly one per request
\* that names a registered tool, of the tool with the request's name and with the
\* request's arguments, for every assistant message whose dispatch has run; requests
\* naming no registered tool cause no invocation and none is invoked twice.
C11_OncePerRequest ==
    LET served == RequestsUpTo(ex, messages,
                      IF PendingDispatch THEN Len(messages) - 1 ELSE Len(messages))
    IN  /\ Len(invoked) = Len(served)
        /\ \A k \in DOMAIN invoked :
              /\ invoked[k].call = served[k]
              /\ invoked[k].name = served[k].name
              /\ invoked[k].args = served[k].args
              /\ \E r \in DOMAIN Registry(ex) :
                    /\ Registry(ex)[r] = invoked[k].name
                    /\ \A j \in 1..(r - 1) : Registry(ex)[j] # served[k].name

\* a finished run whose assistant message asked for an unregistered and a registered
\* tool: one invocation, of the registered one
C11_Witness ==
    /\ ex = 9
    /\ pc = "done"
    /\ model_calls = 2
    /\ Len(messages[2].tool_calls) = 2
    /\ messages[2].tool_calls[1].name = "Wikipedia"
    /\ messages[2].tool_calls[2].name = "add"
    /\ Len(invoked) = 1
    /\ invoked[1].name = "add"

(***************************************************************************)
(* C12.                                                                    *)
(***************************************************************************)
\* C12: a model call that returns appends its response as the last message and goes
\* to the tools exactly when that message carries a request, otherwise to the end of
\* the loop; the tools are entered only from a model call; and a dispatch always
\* leads back to the model call.
C12_TwoStates ==
    [][(ex \in AgentExamples) =>
          /\ (pc = "agent" /\ raised' = "") =>
                /\ Len(messages') = Len(messages) + 1
                /\ IsPrefix(messages, messages')
                /\ messages'[Len(messages')].type = "ai"
                /\ pc' = IF messages'[Len(messages')].tool_calls # <<>>
                         THEN "tools" ELSE AfterEnd(ex)
          /\ pc' = "tools" => pc = "agent"
          /\ (pc = "tools" /\ raised' = "") => pc' = "agent"]_vars

\* a run through both states: model call, dispatch, model call, done
C12_Witness ==
    /\ ex = 10
    /\ pc = "done"
    /\ step = 3
    /\ Len(messages) = 4
    /\ messages[2].type = "ai" /\ messages[2].tool_calls # <<>>
    /\ messages[3].type = "tool"
    /\ messages[4].type = "ai" /\ messages[4].tool_calls = <<>>

(***************************************************************************)
(* C13.                                                                    *)
(***************************************************************************)
\* C13: in generate_stream the loop leaves the model call, for the tools or for the
\* end, only when every chunk of the response has arrived, and decides on the whole
\* response: the message judged and appended holds all content and all tool calls;
\* while chunks are outstanding the conversation and the loop's state stay as they
\* are, although fragments are already yielded.
C13_DecidesOnComplete ==
    [][/\ (pc' \in {"tools", "done"} /\ pc' # pc) =>
             /\ pc = "streaming"
             /\ streaming.sent = Len(streaming.chunks)
             /\ messages'[Len(messages')].content
                   = ContentUpTo(streaming.chunks, Len(streaming.chunks))
             /\ messages'[Len(messages')].tool_calls
                   = ToolCallsUpTo(streaming.chunks, Len(streaming.chunks))
             /\ pc' = "tools" <=>
                   \E i \in DOMAIN streaming.chunks : streaming.chunks[i].tool_calls # <<>>
       /\ (pc = "streaming" /\ streaming.sent < Len(streaming.chunks)) =>
             /\ pc' \in {"streaming", "error"}
             /\ messages' = messages
             /\ step' = step]_vars

\* a fragment has been yielded while the chunk with the tool calls is still to come
C13_Witness ==
    /\ pc = "streaming"
    /\ streaming.sent = 1
    /\ Len(emitted) = 1
    /\ emitted[1].content = Lit("Searching.")
    /\ streaming.chunks[2].tool_calls # <<>>
    /\ Len(messages) = 1

(***************************************************************************)
(* Vocabulary of the script properties.                                    *)
(***************************************************************************)
\* control is at a test of variables the script reports as required, and the test fails
RequiredCheckFails ==
    /\ Running
    /\ Cur.kind \in {"env_all", "env_none"}
    /\ Cur.required
    /\ ~Holds(Cur, env, results)

\* the variables the script reports as required
RequiredVars(s) ==
    UNION {Program(s)[l].names : l \in {m \in DOMAIN Program(s) : Program(s)[m].required}}

\* the scripts that go on without the upload when a COS variable is missing
SkippingScripts == {"04_upload_to_cos", "chat_invoke"}

MultiStep == {"02_prompt_template", "08_rag_service_deploy", "13_ai_service_deploy"}

Attempted(site) == \E i \in DOMAIN attempts : attempts[i].site = site

Succeeded(site) == \E i \in DOMAIN attempts : attempts[i] = Attempt(site, TRUE)

\* control is at a remote operation and the step taken is its failure
RemoteStepFails ==
    /\ Running
    /\ Cur.kind = "remote"
    /\ attempts' = Append(attempts, Attempt(Cur.site, FALSE))

\* the operations of 02 that need the id of the stored template
NeedPromptId ==
    {"load_prompt", "update_prompt", "APIClient(project)", "deployments.create(project)",
     "deployments.generate_text(project)", "get_lock", "PromptTemplateManager(space)",
     "store_prompt(space)", "APIClient(space)", "deployments.create(space)",
     "deployments.generate_text(space)"}

\* each step has run only if the step whose result it needs succeeded
Dependencies ==
    /\ script \in {"08_rag_service_deploy", "13_ai_service_deploy"} =>
          /\ Attempted("repository.store_ai_service") => "software_spec_id" \in results
          /\ Attempted("deployments.create") => Succeeded("repository.store_ai_service")
          /\ Attempted("deployments.run_ai_service") => Succeeded("deployments.create")
    /\ script = "02_prompt_template" =>
          \A site \in NeedPromptId : Attempted(site) => Succeeded("store_prompt(project)")

\* C15 as stated: 02, 08 and 13, started with the variables they require, are never
\* aborted: whatever remote step fails, they do not end with a non-zero status.
C15_AsStated ==
    (script \in MultiStep /\ RequiredVars(script) \subseteq env) => exit_status # 1

\* C15: in 02, 08 and 13 the failure of a remote step inside a try block does not end
\* the script with an error: the except clause prints its message and control goes on;
\* the failure of a step outside any try block (the construction of the client or of the
\* template manager, the selection of the space) ends the script with status 1; and a
\* step is attempted only if the step whose result it needs succeeded.
C15_CaughtAndSkipped ==
    /\ [](Dependencies)
    /\ [][(script \in MultiStep /\ RemoteStepFails) =>
             IF Cur.caught
               THEN /\ exit_status' # 1
                    /\ printed' = Say(printed, Cur.diag)
               ELSE /\ exit_status' = 1
                    /\ spc' = "exit1"]_vars

\* 08 has reached its end although storing the service failed: deployment and test skipped
C15_Witness ==
    /\ script = "08_rag_service_deploy"
    /\ exit_status = 0
    /\ Attempt("repository.store_ai_service", FALSE) \in {attempts[i] : i \in DOMAIN attempts}
    /\ ~Attempted("deployments.create")
    /\ ~Attempted("deployments.run_ai_service")
    /\ printed[Len(printed)] = "Skipping test (no deployment)"

RECURSIVE OnlyFrom(_, _, _)
OnlyFrom(s, chars, i) ==
    IF i > Len(s) THEN TRUE ELSE CharAt(s, i) \in chars /\ OnlyFrom(s, chars, i + 1)

\* a path taken apart: what stands before the fragment, the fragment, the extension
PathParts(path) ==
    LET h == Len("data/raw/response_") + Len(Timestamp(0)) + 1
    IN  [head |-> SubSeq(path, 1, h),
         fragment |-> SubSeq(path, h + 1, Len(path) - 4),
         tail |-> SubSeq(path, Len(path) - 3, Len(path))]

\* chat_invoke has written the response file of the current invocation
Written == script = "chat_invoke" /\ spc \notin {"model", "chat", "write", "exit1"}

\* C17: once the chat call has succeeded and chat_invoke has written its file, the file
\* data/raw/response_<timestamp>_<fragment>.txt holds exactly
\* "Prompt: <prompt>\n\nResponse:\n<response>\n", and <fragment>, computed from the
\* first 30 characters of the prompt, has at most 30 characters, all of them
\* alphanumerics, '-' or '_'.
C17_ResponseFile ==
    Written =>
        /\ Succeeded("model.chat")
        /\ saved # <<>>
        /\ \E t \in 0..MaxTicks :
              /\ PathParts(saved[Len(saved)]).head = "data/raw/response_" \o Timestamp(t) \o "_"
              /\ PathParts(saved[Len(saved)]).tail = ".txt"
        /\ Len(PathParts(saved[Len(saved)]).fragment) <= 30
        /\ OnlyFrom(PathParts(saved[Len(saved)]).fragment, Alnum \cup {"-", "_"}, 1)
        /\ \E f \in files :
              /\ f.path = saved[Len(saved)]
              /\ f.content = "Prompt: " \o prompt \o "\n\nResponse:\n" \o answer \o "\n"
        /\ answer \in ChatResponses

\* the file of a prompt longer than 30 characters, with characters that are dropped
C17_Witness ==
    /\ script = "chat_invoke"
    /\ exit_status = 0
    /\ Len(prompt) > 30
    /\ saved = <<"data/raw/response_20250101_000000_Explain_retrieval-augmented_ge.txt">>
    /\ files = {[path |-> saved[1],
                 content |-> "Prompt: Explain retrieval-augmented generation: why/how?\n\nResponse:\nIt depends.\n"]}

\* C18 as stated: any two successful invocations of chat_invoke have written different
\* paths, and the file of each of them is still there with the content it wrote.
C18_AsStated ==
    /\ \A i, j \in DOMAIN saved : saved[i] = saved[j] => i = j
    /\ Cardinality(files) = Len(saved)

\* the positions of msgs that hold the system prompt of example e
PromptPositions(e, msgs) ==
    {i \in DOMAIN msgs : msgs[i].type = "human" /\ msgs[i].content = SystemPrompt(e)}

\* C19 as stated: in examples 10 to 13 the input of every model call starts with the
\* system prompt, holds it exactly once, and the stored conversation never holds it.
C19_AsStated ==
    (HasSystemPrompt(ex) /\ model_calls > 0) =>
        /\ PromptPositions(ex, model_input) = {1}
        /\ PromptPositions(ex, messages) = {}

\* the text of the first user message of msgs, lower-cased, holds a math keyword
AsksForMath(msgs) ==
    \E i \in DOMAIN msgs :
        /\ msgs[i].type = "human"
        /\ \A j \in 1..(i - 1) : msgs[j].type # "human"
        /\ \E keyword \in MathKeywords : Contains(Lower(Flatten(msgs[i].content)), keyword)

\* C20: the supervisor of example 12 hands the run to the math agent exactly when the
\* lower-cased text of the first user message holds a math keyword; otherwise the run
\* ends at once, the conversation as it was and no model called.  When the math agent
\* has finished, the supervisor ends with the math agent's messages, the last of them
\* the math agent's final message.
C20_SupervisorRoutes ==
    [][/\ (ex = 12 /\ pc = "router") =>
             /\ pc' = IF AsksForMath(messages) THEN "agent" ELSE "done"
             /\ messages' = messages
             /\ model_calls' = 0
             /\ raised' = ""
       /\ (ex = 12 /\ pc = "math_return") =>
             /\ pc' = "done"
             /\ outer' = messages
             /\ messages' = messages
             /\ messages[Len(messages)].type = "ai"
             /\ messages[Len(messages)].tool_calls = <<>>
       /\ (ex = 12 /\ pc' = "done") => pc \in {"router", "math_return"}]_vars

\* a routed run has ended: the math agent called a tool and then answered
C20_Witness ==
    /\ ex = 12
    /\ pc = "done"
    /\ model_calls = 2
    /\ Len(outer) = 4
    /\ outer[1].content = Lit("Calculate 15 * 8")
    /\ outer[4].type = "ai"
    /\ outer[4].tool_calls = <<>>

(***************************************************************************)
(* Vocabulary of the service properties.                                   *)
(***************************************************************************)
Returned13 == ex = 13 /\ pc = "returned"

Body == execute_response.body

\* C21: generate never lets an exception out: whatever went wrong - no messages in the
\* payload, a failing client, a failing model call, the recursion limit - the except
\* clause turns it into a response.  Every response has exactly one choice, of role
\* "assistant" and with content that is not empty; its body has an "error" field
\* exactly when an exception occurred; and a payload without messages, or with an
\* empty list of them, causes no model call.
C21_AlwaysResponds ==
    /\ (ex = 13 /\ pc = "error") => ENABLED GenerateCatch
    /\ Returned13 =>
          /\ Len(Body.choices) = 1
          /\ Body.choices[1].message.role = "assistant"
          /\ StrLen(Body.choices[1].message.content) > 0
          /\ ("error" \in DOMAIN Body) <=> (raised # "")
          /\ (~payload.has \/ payload.messages = <<>>) =>
                /\ model_calls = 0
                /\ raised = "ValueError"

\* the run hit the recursion limit after a model call and the caller got a response
C21_Witness ==
    /\ Returned13
    /\ raised = "GraphRecursionError"
    /\ model_calls = 1
    /\ "error" \in DOMAIN Body
    /\ Body.error = "Recursion limit reached"

\* the content of the one choice of the response
ReturnedContent == Body.choices[1].message.content

\* agent.invoke returned and its last message has no content
EndedEmpty ==
    /\ Returned13
    /\ raised = ""
    /\ StrLen(messages[Len(messages)].content) = 0

\* C22: when the last message of a finished run has empty content, the answer generate
\* returns is the content of the latest message of the conversation whose content is
\* not empty, of whatever role; it is "No response generated" only when every message
\* of the conversation has empty content.
C22_FallsBackToLatest ==
    EndedEmpty =>
        /\ \A i \in DOMAIN messages :
              (/\ StrLen(messages[i].content) > 0
               /\ \A j \in (i + 1)..Len(messages) : StrLen(messages[j].content) = 0)
                  => ReturnedContent = messages[i].content
        /\ (ReturnedContent = Lit("No response generated")) <=>
              \A i \in DOMAIN messages : StrLen(messages[i].content) = 0

\* the model answered with nothing and the caller got the user's own question back
C22_Witness ==
    /\ EndedEmpty
    /\ Len(messages) = 2
    /\ messages[1].type = "human"
    /\ ReturnedContent = Lit("Calculate 15 * 8")

\* the run has got past the creation of the agent
AgentCreated == ex = 13 /\ pc \notin {"payload", "none"} /\ raised \notin {"ValueError", "ClientError"}

\* the payload messages that are the conversation, and those that are instructions
Spoken == SelectSeq(payload.messages, LAMBDA m : m.role \in {"user", "assistant"})

Instructing == SelectSeq(payload.messages, LAMBDA m : m.role = "system")

\* the characters of the base instructions and of the contents seq[1..n], each content
\* behind a blank line
RECURSIVE JoinedUpTo(_, _)
JoinedUpTo(seq, n) ==
    IF n = 0 THEN Flatten(SystemPrompt(13))
    ELSE JoinedUpTo(seq, n - 1) \o "\n\n" \o Flatten(seq[n].content)

\* C23: generate splits the payload's messages without loss or reordering: the
\* conversation the agent starts from is exactly the messages of role user and
\* assistant, in payload order; the instructions are the base instructions followed by
\* the content of every system message, in payload order; no system message and no
\* message of another role enters the conversation.
C23_SplitsPayload ==
    AgentCreated =>
        /\ Len(messages) >= Len(Spoken)
        /\ \A i \in DOMAIN Spoken :
              /\ messages[i].type = (IF Spoken[i].role = "user" THEN "human" ELSE "ai")
              /\ messages[i].content = Spoken[i].content
              /\ messages[i].tool_calls = <<>>
        /\ \A i \in DOMAIN messages :
              i > Len(Spoken) => messages[i].type \in {"ai", "tool"} /\ model_calls > 0
        /\ Flatten(instructions) = JoinedUpTo(Instructing, Len(Instructing))
        /\ \A i \in DOMAIN messages, j \in DOMAIN Instructing :
              messages[i].content # Instructing[j].content

\* two system messages around a user message: one message of conversation, both
\* contents in the instructions, in their order
C23_Witness ==
    /\ ex = 13
    /\ pc = "agent"
    /\ model_calls = 0
    /\ payload.messages = <<PayloadMessage("system", Lit("Be brief.")),
                            PayloadMessage("user", Lit("Calculate 15 * 8")),
                            PayloadMessage("system", Lit("Answer in French."))>>
    /\ Len(messages) = 1
    /\ messages[1].content = Lit("Calculate 15 * 8")
    /\ Flatten(instructions) = "# Notes\n\nBe brief.\n\nAnswer in French."

\* the chunks yielded so far that report an error
ErrorChunks == {i \in DOMAIN emitted : emitted[i].error # ""}

\* C24 as stated: of a run of generate_stream, every tool-call request of every
\* assistant message and every tool message of the conversation has been yielded as a
\* chunk; and when an exception occurred, exactly one error chunk was yielded, as the
\* last chunk.
C24_AsStated ==
    (ex = 13 /\ pc # "streaming") =>
        /\ \A i \in DOMAIN messages :
              /\ messages[i].type = "ai" =>
                    \A k \in DOMAIN messages[i].tool_calls :
                        \E j \in DOMAIN emitted :
                            /\ emitted[j].role = "assistant"
                            /\ \E l \in DOMAIN emitted[j].tool_calls :
                                  emitted[j].tool_calls[l] = messages[i].tool_calls[k]
              /\ messages[i].type = "tool" =>
                    \E j \in DOMAIN emitted :
                        /\ emitted[j].role = "tool"
                        /\ emitted[j].tool_call_id = messages[i].tool_call_id
                        /\ emitted[j].content = messages[i].content
        /\ raised # "" => ErrorChunks = {Len(emitted)}
        /\ raised = "" => ErrorChunks = {}

\* the operations of chat_invoke that make up the model call, and the upload
ModelCallSites == {"ModelInference", "model.chat"}

UploadSites == {"APIClient", "data_connection.write"}

FailedAt(sites) == \E i \in DOMAIN attempts : attempts[i].site \in sites /\ ~attempts[i].ok

\* the response file of the current invocation is on disk with what was written
FileInPlace ==
    /\ saved # <<>>
    /\ \E f \in files : f.path = saved[Len(saved)] /\ f.content = FileContent(prompt, answer)

IncompleteWarning == "COS configuration incomplete. Skipping upload."

Warned == \E i \in DOMAIN printed : printed[i] = IncompleteWarning

\* C25: in chat_invoke the upload is attempted only with COS_BUCKET and
\* COS_CONNECTION_ASSET_ID both set and only once the response file is written, and an
\* invocation that ends normally with both set has attempted it; the warning is printed
\* exactly when one of the two is set; after a failed upload the file is in place and
\* the exit status is 0; a failed model call ends the invocation with status 1, and a
\* file is written only after model.chat has returned in the same invocation.
C25_UploadAfterWrite ==
    /\ [](script = "chat_invoke" =>
            /\ (\E s \in UploadSites : Attempted(s)) =>
                  (CosVars \subseteq env /\ Written /\ FileInPlace)
            /\ (spc = "exit0" /\ CosVars \subseteq env) => Attempted("APIClient")
            /\ Warned => Cardinality(CosVars \cap env) = 1
            /\ (spc = "exit0" /\ Cardinality(CosVars \cap env) = 1) => Warned
            /\ FailedAt(UploadSites) =>
                  (spc = "exit0" /\ exit_status = 0 /\ FileInPlace)
            /\ FailedAt(ModelCallSites) => (spc = "exit1" /\ exit_status = 1))
    /\ [][(script = "chat_invoke" /\ (saved' # saved \/ files' # files)) =>
            (Succeeded("model.chat") /\ ~FailedAt(ModelCallSites) /\ attempts' = attempts)]_vars

\* an invocation with both variables set whose upload failed after the file was written
C25_Witness ==
    /\ script = "chat_invoke"
    /\ CosVars \subseteq env
    /\ attempts # <<>>
    /\ attempts[Len(attempts)] = Attempt("data_connection.write", FALSE)
    /\ exit_status = 0
    /\ FileInPlace

\* what run_tool returns when utility_agent_tool.run raises
ToolFailed == Cat(Lit("Tool execution failed: "), Lit("platform error"))

\* C26: in examples 11 and 13, when the platform tool behind a request fails, the
\* invocation returns (does not raise) the string "Tool execution failed: <message>",
\* the dispatch appends a tool message with that string under the request's id, no
\* exception is recorded and the loop goes on to the model node.
C26_FailureReturned ==
    [][(DispatchStep /\ ex \in {11, 13}) =>
          /\ \A k \in DOMAIN NewInvoked :
                NewInvoked[k].out = PlatformError =>
                    /\ NewInvoked[k].result = Returned(ToolFailed)
                    /\ \E j \in DOMAIN NewMessages :
                          /\ NewMessages[j].type = "tool"
                          /\ NewMessages[j].content = ToolFailed
                          /\ NewMessages[j].tool_call_id = GetId(NewInvoked[k].call)
          /\ \A i \in DOMAIN LastCalls :
                (Registered(ex, LastCalls[i].name) /\ LastCalls[i].name \notin MathTools) =>
                    \E k \in DOMAIN NewInvoked : NewInvoked[k].call = LastCalls[i]
          /\ raised' = ""
          /\ pc' = "agent"]_vars

\* example 13: the platform failed behind the request call_1, the model was called again
\* with the failure message in the conversation and gave its final answer
C26_Witness ==
    /\ ex = 13
    /\ pc = "done"
    /\ raised = ""
    /\ model_calls = 2
    /\ Len(messages) = 4
    /\ messages[2].tool_calls = <<ToolCall("Wikipedia", [input |-> "q"], SomeId("call_1"))>>
    /\ messages[3].type = "tool"
    /\ messages[3].content = ToolFailed
    /\ messages[3].tool_call_id = "call_1"
    /\ invoked[1].out = PlatformError

\* a call of inference_model (example 08) on a payload with at least one message
RagStep == ex = 8 /\ pc = "grounding" /\ pc' # "grounding" /\ messages # <<>>

\* the search was run, i.e. the client and the RAGQuery tool could be obtained
Searched(s) == s.kind \in {"output", "error"}

\* the system message's content for a grounding context
ContextBlock(text) == Cat(Cat(Lit("### Context:\n"), text), Lit("\n\n"))

\* C27: in the RAG service the search is run with the content of the payload's last
\* message; when the run of the search raises, nothing is raised by the service for
\* that, the grounding context is the empty string and the model is called; and the
\* model's input is one new system message holding the grounding context (the tool's
\* output, or the empty string) followed by the payload's messages in their order.
C27_GroundedCall ==
    [][RagStep =>
          /\ Searched(search') =>
                /\ query' = messages[Len(messages)].content
                /\ model_calls' = model_calls + 1
                /\ raised' \in {"", "ModelError"}
                /\ Len(model_input') = Len(messages) + 1
                /\ model_input'[1].type = "system"
                /\ model_input'[1].content
                      = ContextBlock(IF search'.kind = "error" THEN <<>> ELSE search'.text)
                /\ SubSeq(model_input', 2, Len(model_input')) = messages
          /\ ~Searched(search') => (model_calls' = model_calls /\ messages' = messages)]_vars

\* a payload of three messages whose search failed: the model was called with the empty
\* context in front of the three messages and answered
C27_Witness ==
    /\ ex = 8
    /\ pc = "done"
    /\ search.kind = "error"
    /\ model_calls = 1
    /\ Len(model_input) = 4
    /\ model_input[1].content = ContextBlock(<<>>)
    /\ model_input[2].type = "system"
    /\ model_input[3].type = "assistant"
    /\ model_input[4].type = "user"
    /\ query = model_input[4].content
    /\ query = Lit("System status?")

(***************************************************************************)
(* C28, C29: the decision table.                                           *)
(***************************************************************************)
\* C28 as stated: for every input with grade A or B and any loan_amount at least one
\* rule matches, and the output of the decisions node is never the default action.
C28_AsStated ==
    (grade \in Grades /\ assessment.returned) =>
        /\ matched # {}
        /\ assessment.output.assessment_error = ""

\* C29 as stated: no input satisfies the conditions of two rules whose actions give
\* different values to insurance_required or insurance_rate.
C29_AsStated ==
    (grade \in Grades /\ assessment.returned) =>
        \A r1, r2 \in matched :
            /\ Rules[r1].actions.insurance_required = Rules[r2].actions.insurance_required
            /\ Rules[r1].actions.insurance_rate = Rules[r2].actions.insurance_rate

====
